---- MODULE Spec2Model ----
(***************************************************************************)
(* Model of the two stateful cores of the dashboard:                       *)
(*   - pages/record.py: send_to_webhook, the webhook dispatcher with its   *)
(*     gates, retry loop, statistics and response history;                 *)
(*   - pages/10_Project_Management.py: the project table held in the       *)
(*     session, its 300 s auto-load window, forced reload, append and save.*)
(* The validator, the rate limiter, the HTTP transport and the remote      *)
(* sheet are collaborators: what they answer is an input of each action.   *)
(***************************************************************************)
EXTENDS Integers, Sequences, FiniteSets, TLC

VARIABLES
    webhook_stats,            \* st.session_state.webhook_stats
    webhook_responses,        \* st.session_state.webhook_responses
    ret,                      \* what the last send_to_webhook call gave its caller
    calls,                    \* number of send_to_webhook calls made so far
    plan,                     \* SpecBurst: the call that is repeated
    last_audio_data,          \* st.session_state.last_audio_data
    auto_dispatched,          \* history: the audio data main() dispatched automatically
    now,                      \* datetime.now(), in seconds
    project_data,             \* st.session_state.project_data
    project_last_auto_load,   \* st.session_state.project_last_auto_load
    project_sheet_url,        \* st.session_state.project_sheet_url
    project_worksheet_name,   \* st.session_state.project_worksheet_name
    project_auto_load_enabled,\* st.session_state.project_auto_load_enabled
    cache,                    \* the sheets manager's read cache
    remote,                   \* the remote spreadsheet, per (sheet, worksheet)
    io                        \* what the last script run of the project page did

hookVars == <<webhook_stats, webhook_responses, ret, calls, plan, last_audio_data>>

sheetVars == <<now, project_data, project_last_auto_load, project_sheet_url,
               project_worksheet_name, project_auto_load_enabled, cache, remote, io>>

vars == <<webhook_stats, webhook_responses, ret, calls, plan, last_audio_data,
          auto_dispatched,
          now, project_data, project_last_auto_load, project_sheet_url,
          project_worksheet_name, project_auto_load_enabled, cache, remote, io>>

-----------------------------------------------------------------------------
(* Bounds of the model *)

\* send_to_webhook calls explored with free inputs
MaxCalls == 2

\* send_to_webhook calls explored when one call is repeated
MaxBurst == 22

-----------------------------------------------------------------------------
(* pages/record.py: constants *)

max_retries == 3

retry_delay == 1

\* webhook_responses[:20]
HistoryKeep == 20

\* timeout=30 of requests.post
timeout_duration == 30

\* 10 * 1024 * 1024 bytes
MaxPayloadBytes == 10 * 1024 * 1024

\* two of the ten keys of WEBHOOK_URLS; the code treats all keys alike
WEBHOOK_URLS == {"audio", "books"}

Min(a, b) == IF a < b THEN a ELSE b

-----------------------------------------------------------------------------
(* Collaborators of send_to_webhook: the inputs of one call *)

\* status codes a webhook may answer: one per branch of the status ladder
StatusCodes == {200, 302, 404, 429, 500}

\* rate_limiter.check_rate_limit: (True, _), (False, msg) or an exception
RateAnswers == {"ok", "limited", "raise"}

\* WebhookValidator.validate_webhook_payload: (True, _), (False, errors) or an exception
ValidAnswers == {"ok", "invalid", "raise"}

\* len(json.dumps(sanitize(payload)).encode('utf-8')), at and just over the limit
PayloadSizes == {MaxPayloadBytes, MaxPayloadBytes + 1}

\* json.dumps(payload): a string, or TypeError for a value it cannot encode
DumpsAnswers == {"ok", "raise"}

\* what one requests.post call does: a response, or an exception of requests
Response(status) == [kind |-> "response", status |-> status]

Raises(exc) == [kind |-> exc, status |-> 0]

TerminalOutcomes == {Response(s) : s \in StatusCodes} \cup {Raises("TooManyRedirects")}

RetriedOutcomes == {Raises("Timeout"), Raises("ConnectionError")}

LastOutcomes == TerminalOutcomes \cup RetriedOutcomes \cup {Raises("SSLError")}

\* the transport's behaviour over the attempts of one call: the attempts
\* after a terminal one are never made and are fixed to Response(200)
Transcripts ==
    {<<a, Response(200), Response(200)>> : a \in TerminalOutcomes}
    \cup {<<a, b, Response(200)>> : a \in RetriedOutcomes, b \in TerminalOutcomes}
    \cup {<<a, b, c>> : a \in RetriedOutcomes, b \in RetriedOutcomes, c \in LastOutcomes}

DefaultOuts == <<Response(200), Response(200), Response(200)>>

\* the answers of the collaborators asked before the transport. An answer
\* that raises ends the call, so the answers after it are fixed; a refusal
\* (limited, invalid, over the size limit) is combined with every later answer
GateAnswers ==
    {[rate |-> "raise", valid |-> "ok", dumps |-> "ok", size |-> MaxPayloadBytes]}
    \cup {[rate |-> r, valid |-> "raise", dumps |-> "ok", size |-> MaxPayloadBytes] :
            r \in RateAnswers \ {"raise"}}
    \cup {[rate |-> r, valid |-> v, dumps |-> "raise", size |-> MaxPayloadBytes] :
            r \in RateAnswers \ {"raise"}, v \in ValidAnswers \ {"raise"}}
    \cup {[rate |-> r, valid |-> v, dumps |-> "ok", size |-> s] :
            r \in RateAnswers \ {"raise"}, v \in ValidAnswers \ {"raise"},
            s \in PayloadSizes}

PassesGates(a) ==
    a.rate = "ok" /\ a.valid = "ok" /\ a.dumps = "ok" /\ a.size <= MaxPayloadBytes

\* the inputs of one call; the transport only varies for the calls that reach it
Inputs ==
    {[rate |-> a.rate, valid |-> a.valid, dumps |-> a.dumps, size |-> a.size,
      outs |-> t] :
        a \in {x \in GateAnswers : PassesGates(x)}, t \in Transcripts}
    \cup {[rate |-> a.rate, valid |-> a.valid, dumps |-> a.dumps, size |-> a.size,
           outs |-> DefaultOuts] :
        a \in {x \in GateAnswers : ~PassesGates(x)}}

-----------------------------------------------------------------------------
(* Python exception classes and the except chain of send_to_webhook *)

\* requests.exceptions.SSLError derives from ConnectionError; every class
\* derives from Exception
IsInstance(exc, cls) ==
    \/ exc = cls
    \/ cls = "Exception"
    \/ exc = "SSLError" /\ cls = "ConnectionError"

\* the except clauses of send_to_webhook, in source order
ExceptClauses ==
    <<"ValidationError", "PayloadTooLargeError", "RateLimitError", "Timeout",
      "ConnectionError", "SSLError", "json.JSONEncodeError", "Exception">>

\* names the interpreter can resolve when it evaluates a clause: the json
\* module has no attribute JSONEncodeError
Resolvable(cls) == cls # "json.JSONEncodeError"

\* the clause that handles exc, searching from clause i; 0 when evaluating a
\* clause fails with AttributeError before any clause matched
RECURSIVE handler_for(_, _)
handler_for(exc, i) ==
    IF i > Len(ExceptClauses) THEN 0
    ELSE IF ~Resolvable(ExceptClauses[i]) THEN 0
    ELSE IF IsInstance(exc, ExceptClauses[i]) THEN i
    ELSE handler_for(exc, i + 1)

-----------------------------------------------------------------------------
(* send_to_webhook *)

\* variant of the code: validation, sanitize and the size check run before the rate limiter
run_gates_validate_first(inp) ==
    IF inp.valid = "raise"
    THEN [exc |-> "RuntimeError", asked |-> <<"validate">>, sized |-> FALSE]
    ELSE IF inp.valid = "invalid"
    THEN [exc |-> "ValidationError", asked |-> <<"validate">>, sized |-> FALSE]
    ELSE IF inp.dumps = "raise"
    THEN [exc |-> "TypeError", asked |-> <<"validate", "sanitize", "dumps">>,
          sized |-> FALSE]
    ELSE IF inp.size > MaxPayloadBytes
    THEN [exc |-> "PayloadTooLargeError", asked |-> <<"validate", "sanitize", "dumps">>,
          sized |-> TRUE]
    ELSE IF inp.rate = "raise"
    THEN [exc |-> "RuntimeError", asked |-> <<"validate", "sanitize", "dumps", "rate">>,
          sized |-> TRUE]
    ELSE IF inp.rate = "limited"
    THEN [exc |-> "RateLimitError",
          asked |-> <<"validate", "sanitize", "dumps", "rate">>, sized |-> TRUE]
    ELSE [exc |-> "", asked |-> <<"validate", "sanitize", "dumps", "rate">>,
          sized |-> TRUE]

\* variant of the code: the verdict of the validator is not looked at
run_gates_ignore_validation(inp) ==
    IF inp.rate = "raise"
    THEN [exc |-> "RuntimeError", asked |-> <<"rate">>, sized |-> FALSE]
    ELSE IF inp.rate = "limited"
    THEN [exc |-> "RateLimitError", asked |-> <<"rate">>, sized |-> FALSE]
    ELSE IF inp.dumps = "raise"
    THEN [exc |-> "TypeError", asked |-> <<"rate", "validate", "sanitize", "dumps">>,
          sized |-> FALSE]
    ELSE IF inp.size > MaxPayloadBytes
    THEN [exc |-> "PayloadTooLargeError",
          asked |-> <<"rate", "validate", "sanitize", "dumps">>, sized |-> TRUE]
    ELSE [exc |-> "", asked |-> <<"rate", "validate", "sanitize", "dumps">>,
          sized |-> TRUE]

\* variant of the code: the size limit is inclusive (>= where the code has >)
run_gates_inclusive_limit(inp) ==
    IF inp.rate = "raise"
    THEN [exc |-> "RuntimeError", asked |-> <<"rate">>, sized |-> FALSE]
    ELSE IF inp.rate = "limited"
    THEN [exc |-> "RateLimitError", asked |-> <<"rate">>, sized |-> FALSE]
    ELSE IF inp.valid = "raise"
    THEN [exc |-> "RuntimeError", asked |-> <<"rate", "validate">>, sized |-> FALSE]
    ELSE IF inp.valid = "invalid"
    THEN [exc |-> "ValidationError", asked |-> <<"rate", "validate">>, sized |-> FALSE]
    ELSE IF inp.dumps = "raise"
    THEN [exc |-> "TypeError", asked |-> <<"rate", "validate", "sanitize", "dumps">>,
          sized |-> FALSE]
    ELSE IF inp.size >= MaxPayloadBytes
    THEN [exc |-> "PayloadTooLargeError",
          asked |-> <<"rate", "validate", "sanitize", "dumps">>, sized |-> TRUE]
    ELSE [exc |-> "", asked |-> <<"rate", "validate", "sanitize", "dumps">>,
          sized |-> TRUE]

\* variant of the code: the answer of the rate limiter is not looked at
run_gates_ignore_rate_limit(inp) ==
    IF inp.rate = "raise"
    THEN [exc |-> "RuntimeError", asked |-> <<"rate">>, sized |-> FALSE]
    ELSE IF inp.valid = "raise"
    THEN [exc |-> "RuntimeError", asked |-> <<"rate", "validate">>, sized |-> FALSE]
    ELSE IF inp.valid = "invalid"
    THEN [exc |-> "ValidationError", asked |-> <<"rate", "validate">>, sized |-> FALSE]
    ELSE IF inp.dumps = "raise"
    THEN [exc |-> "TypeError", asked |-> <<"rate", "validate", "sanitize", "dumps">>,
          sized |-> FALSE]
    ELSE IF inp.size > MaxPayloadBytes
    THEN [exc |-> "PayloadTooLargeError",
          asked |-> <<"rate", "validate", "sanitize", "dumps">>, sized |-> TRUE]
    ELSE [exc |-> "", asked |-> <<"rate", "validate", "sanitize", "dumps">>,
          sized |-> TRUE]

\* variant of the code: the refusal of the rate limiter is raised as a
\* timeout of requests
run_gates_limit_as_timeout(inp) ==
    IF inp.rate = "raise"
    THEN [exc |-> "RuntimeError", asked |-> <<"rate">>, sized |-> FALSE]
    ELSE IF inp.rate = "limited"
    THEN [exc |-> "Timeout", asked |-> <<"rate">>, sized |-> FALSE]
    ELSE IF inp.valid = "raise"
    THEN [exc |-> "RuntimeError", asked |-> <<"rate", "validate">>, sized |-> FALSE]
    ELSE IF inp.valid = "invalid"
    THEN [exc |-> "ValidationError", asked |-> <<"rate", "validate">>, sized |-> FALSE]
    ELSE IF inp.dumps = "raise"
    THEN [exc |-> "TypeError", asked |-> <<"rate", "validate", "sanitize", "dumps">>,
          sized |-> FALSE]
    ELSE IF inp.size > MaxPayloadBytes
    THEN [exc |-> "PayloadTooLargeError",
          asked |-> <<"rate", "validate", "sanitize", "dumps">>, sized |-> TRUE]
    ELSE [exc |-> "", asked |-> <<"rate", "validate", "sanitize", "dumps">>,
          sized |-> TRUE]

\* the gates of the try body, in source order: rate limit, validation,
\* sanitize, json.dumps and the size limit. exc is the exception the body
\* raises at a gate ("" when every gate passes), asked the collaborators
\* called, sized whether payload_size was assigned
run_gates(inp) ==
    IF inp.rate = "raise"
    THEN [exc |-> "RuntimeError", asked |-> <<"rate">>, sized |-> FALSE]
    ELSE IF inp.rate = "limited"
    THEN [exc |-> "RateLimitError", asked |-> <<"rate">>, sized |-> FALSE]
    ELSE IF inp.valid = "raise"
    THEN [exc |-> "RuntimeError", asked |-> <<"rate", "validate">>, sized |-> FALSE]
    ELSE IF inp.valid = "invalid"
    THEN [exc |-> "ValidationError", asked |-> <<"rate", "validate">>, sized |-> FALSE]
    ELSE IF inp.dumps = "raise"
    THEN [exc |-> "TypeError", asked |-> <<"rate", "validate", "sanitize", "dumps">>,
          sized |-> FALSE]
    ELSE IF inp.size > MaxPayloadBytes
    THEN [exc |-> "PayloadTooLargeError",
          asked |-> <<"rate", "validate", "sanitize", "dumps">>, sized |-> TRUE]
    ELSE [exc |-> "", asked |-> <<"rate", "validate", "sanitize", "dumps">>,
          sized |-> TRUE]

\* variant of the code: the delay between attempts doubles (1 s, 2 s, 4 s)
\* and the loop also waits after its last attempt
RECURSIVE post_with_doubling_delay(_, _)
post_with_doubling_delay(outs, attempt) ==
    LET o == outs[attempt + 1]
    IN  IF o.kind = "response"
        THEN [raised |-> "", status |-> o.status, attempt |-> attempt, slept |-> <<>>]
        ELSE IF IsInstance(o.kind, "Timeout") \/ IsInstance(o.kind, "ConnectionError")
        THEN IF attempt = max_retries - 1
             THEN [raised |-> o.kind, status |-> 0, attempt |-> attempt,
                   slept |-> <<retry_delay * (2 ^ attempt)>>]
             ELSE LET rest == post_with_doubling_delay(outs, attempt + 1)
                  IN  [rest EXCEPT !.slept = <<retry_delay * (2 ^ attempt)>> \o @]
        ELSE [raised |-> o.kind, status |-> 0, attempt |-> attempt, slept |-> <<>>]

\* variant of the code: a 5xx response is retried like a timeout
RECURSIVE post_retrying_server_errors(_, _)
post_retrying_server_errors(outs, attempt) ==
    LET o == outs[attempt + 1]
    IN  IF o.kind = "response" /\ (o.status < 500 \/ attempt = max_retries - 1)
        THEN [raised |-> "", status |-> o.status, attempt |-> attempt, slept |-> <<>>]
        ELSE IF o.kind = "response"
                \/ IsInstance(o.kind, "Timeout") \/ IsInstance(o.kind, "ConnectionError")
        THEN IF attempt = max_retries - 1
             THEN [raised |-> o.kind, status |-> 0, attempt |-> attempt, slept |-> <<>>]
             ELSE LET rest == post_retrying_server_errors(outs, attempt + 1)
                  IN  [rest EXCEPT !.slept = <<retry_delay * (attempt + 1)>> \o @]
        ELSE [raised |-> o.kind, status |-> 0, attempt |-> attempt, slept |-> <<>>]

\* the loop "for attempt in range(max_retries)" from index attempt on:
\* raised is the exception that leaves the loop ("" after a break), attempt
\* the loop index at that point, slept the time.sleep calls made
RECURSIVE post_with_retry(_, _)
post_with_retry(outs, attempt) ==
    LET o == outs[attempt + 1]
    IN  IF o.kind = "response"
        THEN [raised |-> "", status |-> o.status, attempt |-> attempt, slept |-> <<>>]
        ELSE IF IsInstance(o.kind, "Timeout") \/ IsInstance(o.kind, "ConnectionError")
        THEN IF attempt = max_retries - 1
             THEN [raised |-> o.kind, status |-> 0, attempt |-> attempt, slept |-> <<>>]
             ELSE LET rest == post_with_retry(outs, attempt + 1)
                  IN  [rest EXCEPT !.slept = <<retry_delay * (attempt + 1)>> \o @]
        ELSE [raised |-> o.kind, status |-> 0, attempt |-> attempt, slept |-> <<>>]

\* response_data of a call that got an HTTP response
response_data(webhook_type, status, size, attempt) ==
    [webhook_type |-> webhook_type, status_code |-> status, success |-> (status = 200),
     payload_size |-> size, attempt_count |-> attempt + 1, validation_passed |-> TRUE]

\* the message returned with a response: the status ladder after the insert
response_message(status) ==
    IF status = 200 THEN "Successfully sent"
    ELSE IF status = 429 THEN "Rate limited by server"
    ELSE IF status >= 500 THEN "Server error"
    ELSE IF status >= 400 THEN "Request error"
    ELSE "Unexpected response"

\* error_data built by except clause number h for exception exc
error_data(h, webhook_type, exc, g, inp) ==
    CASE h = 1 -> [error |-> "Validation failed", webhook_type |-> webhook_type,
                   validation_passed |-> FALSE]
      [] h = 2 -> [error |-> "Payload too large", webhook_type |-> webhook_type,
                   payload_size |-> IF g.sized THEN inp.size ELSE 0]
      [] h = 3 -> [error |-> "Rate limit exceeded", webhook_type |-> webhook_type]
      [] h = 4 -> [error |-> "Request timeout", webhook_type |-> webhook_type,
                   timeout_duration |-> timeout_duration]
      [] h = 5 -> [error |-> "Connection error", webhook_type |-> webhook_type,
                   connection_error |-> exc]
      [] h = 6 -> [error |-> "SSL certificate error", webhook_type |-> webhook_type,
                   ssl_error |-> exc]
      [] h = 7 -> [error |-> "JSON encoding error", webhook_type |-> webhook_type,
                   json_error |-> exc]
      [] OTHER -> [error |-> "Unexpected error", webhook_type |-> webhook_type,
                   exception_type |-> exc]

\* variant of the code: the record is appended at the end of the history
insert0_at_end(responses, data) == responses \o <<data>>

\* webhook_responses.insert(0, data)
insert0(responses, data) == <<data>> \o responses

\* webhook_responses[:20]
keep_last(responses) == SubSeq(responses, 1, Min(Len(responses), HistoryKeep))

\* the history after the response path: insert, then keep the last 20
store_response(responses, data) == keep_last(insert0(responses, data))

\* the history after an except clause: insert only
store_error(responses, data) == insert0(responses, data)

\* variant of the code: sent is counted after the retry loop, only by a
\* call that needed more than one attempt
mark_sent_on_retry(stats, webhook_type, reached, attempts) ==
    IF reached /\ attempts > 1 THEN [stats EXCEPT ![webhook_type].sent = @ + 1]
    ELSE stats

\* variant of the code: sent is counted for every endpoint
mark_sent_every_endpoint(stats, webhook_type, reached, attempts) ==
    IF reached THEN [k \in DOMAIN stats |-> [stats[k] EXCEPT !.sent = @ + 1]]
    ELSE stats

\* variant of the code: sent is counted inside the retry loop, once per attempt
mark_sent_per_attempt(stats, webhook_type, reached, attempts) ==
    IF reached THEN [stats EXCEPT ![webhook_type].sent = @ + attempts] ELSE stats

\* "webhook_stats[webhook_type]['sent'] += 1", the last statement before the
\* retry loop: executed once by a call whose gates all passed (reached)
mark_sent(stats, webhook_type, reached, attempts) ==
    IF reached THEN [stats EXCEPT ![webhook_type].sent = @ + 1] ELSE stats

\* variant of the code: every status below 400 is counted as a success
counted_as_below_400(status) == IF status < 400 THEN "success" ELSE "errors"

\* the counter the status ladder increments: success for 200, errors in
\* each of the four other branches
counted_as(status) == IF status = 200 THEN "success" ELSE "errors"

\* one call send_to_webhook(payload, webhook_type) on the session's stats
\* and history, with the collaborators answering as inp says. The result
\* holds the session state after the call and ret, what the caller gets:
\* the triple (success, message, data) or the exception that propagates
send_to_webhook(stats, responses, webhook_type, inp) ==
    LET g == run_gates(inp)
        p == post_with_retry(inp.outs, 0)
        reached == g.exc = ""
        exc == IF reached THEN p.raised ELSE g.exc
        attempts == IF reached THEN p.attempt + 1 ELSE 0
        stats1 == mark_sent(stats, webhook_type, reached, attempts)
        slept == IF reached THEN p.slept ELSE <<>>
        base == [op |-> "send_to_webhook", webhook_type |-> webhook_type, inp |-> inp,
                 asked |-> g.asked, attempts |-> attempts, slept |-> slept]
    IN  IF exc = ""
        THEN LET data == response_data(webhook_type, p.status, inp.size, p.attempt)
                 counter == counted_as(p.status)
             IN  [stats |-> [stats1 EXCEPT ![webhook_type][counter] = @ + 1],
                  responses |-> store_response(responses, data),
                  ret |-> [raised |-> FALSE, success |-> (p.status = 200),
                           message |-> response_message(p.status), data |-> data,
                           call |-> base]]
        ELSE LET h == handler_for(exc, 1)
             IN  IF h = 0
                 THEN [stats |-> stats1, responses |-> responses,
                       ret |-> [raised |-> TRUE, exc |-> "AttributeError", call |-> base]]
                 ELSE LET data == error_data(h, webhook_type, exc, g, inp)
                      IN  [stats |-> [stats1 EXCEPT ![webhook_type].errors = @ + 1],
                           responses |-> store_error(responses, data),
                           ret |-> [raised |-> FALSE, success |-> FALSE,
                                    message |-> data.error, data |-> data,
                                    call |-> base]]

-----------------------------------------------------------------------------
(* send_to_multiple_webhooks *)

\* the keys of CONTENT_TYPES: the same kinds as the keys of WEBHOOK_URLS
CONTENT_TYPES == WEBHOOK_URLS

\* the kinds a caller may request: the known ones and one that is in
\* neither dictionary
RequestKinds == CONTENT_TYPES \cup {"unknown"}

\* longest list of requested kinds explored
MaxKinds == 2

\* the lists of requested kinds, the empty list and repeated kinds included
KindLists == UNION {[1..n -> RequestKinds] : n \in 0..MaxKinds}

\* the element of a one-element set: "the({e(x) : x \in {v}})" is e with x
\* standing for the value of v, computed once
the(S) == CHOOSE x \in S : TRUE

\* the keys of a list
KindsOf(webhook_types) == {webhook_types[i] : i \in 1..Len(webhook_types)}

\* the transport of one endpoint during a fan-out: answers 200, answers 500,
\* times out on every attempt, or fails with an exception of requests that
\* no except clause of send_to_webhook names
FanTranscripts ==
    {<<Response(200), Response(200), Response(200)>>,
     <<Response(500), Response(200), Response(200)>>,
     <<Raises("Timeout"), Raises("Timeout"), Raises("Timeout")>>,
     <<Raises("TooManyRedirects"), Response(200), Response(200)>>}

\* what is common to the calls of one fan-out: the payload
FanPayloads ==
    {[dumps |-> "raise", size |-> MaxPayloadBytes]}
    \cup {[dumps |-> "ok", size |-> z] : z \in PayloadSizes}

\* what differs per endpoint: the rate limiter's answer and the transport
\* (which only varies when the rate limiter lets the call through)
FanEndpoints ==
    {[rate |-> "ok", outs |-> t] : t \in FanTranscripts}
    \cup {[rate |-> r, outs |-> DefaultOuts] : r \in RateAnswers \ {"ok"}}

\* the inputs of the call to one endpoint: the validator answers for the
\* same payload as in the validation that opens the fan-out
FanInput(pre, pl, e) ==
    [rate |-> e.rate, valid |-> pre, dumps |-> pl.dumps, size |-> pl.size,
     outs |-> e.outs]

\* results[webhook_type] = result
put(results, webhook_type, result) ==
    [k \in DOMAIN results \cup {webhook_type} |->
        IF k = webhook_type THEN result ELSE results[k]]

\* the entry of results for one requested kind, with the session after it
\* and the call of send_to_webhook made, if any
send_one(stats, responses, webhook_type, inps) ==
    IF webhook_type \notin CONTENT_TYPES
    THEN [stats |-> stats, responses |-> responses, sends |-> <<>>,
          result |-> [success |-> FALSE, message |-> "Invalid webhook type",
                      data |-> [error |-> "Invalid webhook type"]]]
    ELSE the({[stats |-> r.stats, responses |-> r.responses, sends |-> <<r.ret.call>>,
               result |-> IF r.ret.raised
                          THEN [success |-> FALSE, message |-> "Error sending",
                                data |-> [error |-> r.ret.exc,
                                          exception_type |-> r.ret.exc]]
                          ELSE [success |-> r.ret.success, message |-> r.ret.message,
                                data |-> r.ret.data]] :
              r \in {send_to_webhook(stats, responses, webhook_type,
                                     inps[webhook_type])}})

\* variant of the code: the loop ends at the first endpoint that fails
RECURSIVE fan_out_stop_on_failure(_, _, _, _, _)
fan_out_stop_on_failure(stats, responses, webhook_types, i, inps) ==
    IF i > Len(webhook_types)
    THEN [stats |-> stats, responses |-> responses, results |-> <<>>, sends |-> <<>>]
    ELSE LET w == webhook_types[i]
             one == send_one(stats, responses, w, inps)
             rest == IF one.result.success
                     THEN fan_out_stop_on_failure(one.stats, one.responses,
                                                  webhook_types, i + 1, inps)
                     ELSE [stats |-> one.stats, responses |-> one.responses,
                           results |-> <<>>, sends |-> <<>>]
         IN  [stats |-> rest.stats, responses |-> rest.responses,
              sends |-> one.sends \o rest.sends,
              results |-> IF w \in DOMAIN rest.results THEN rest.results
                          ELSE put(rest.results, w, one.result)]

\* variant of the code: a kind that is not in CONTENT_TYPES is passed over
\* without an entry in results
RECURSIVE fan_out_skip_unknown(_, _, _, _, _)
fan_out_skip_unknown(stats, responses, webhook_types, i, inps) ==
    IF i > Len(webhook_types)
    THEN [stats |-> stats, responses |-> responses, results |-> <<>>, sends |-> <<>>]
    ELSE LET w == webhook_types[i]
             one == send_one(stats, responses, w, inps)
             rest == fan_out_skip_unknown(one.stats, one.responses, webhook_types,
                                          i + 1, inps)
         IN  [stats |-> rest.stats, responses |-> rest.responses,
              sends |-> one.sends \o rest.sends,
              results |-> IF w \in DOMAIN rest.results \/ w \notin CONTENT_TYPES
                          THEN rest.results
                          ELSE put(rest.results, w, one.result)]

\* the loop "for webhook_type in webhook_types" from position i on; inps
\* gives the inputs of the call to each known kind
RECURSIVE fan_out(_, _, _, _, _)
fan_out(stats, responses, webhook_types, i, inps) ==
    IF i > Len(webhook_types)
    THEN [stats |-> stats, responses |-> responses, results |-> <<>>, sends |-> <<>>]
    ELSE LET w == webhook_types[i]
         IN  the({the({[stats |-> rest.stats, responses |-> rest.responses,
                        sends |-> one.sends \o rest.sends,
                        results |-> IF w \in DOMAIN rest.results THEN rest.results
                                    ELSE put(rest.results, w, one.result)] :
                       rest \in {fan_out(one.stats, one.responses, webhook_types,
                                         i + 1, inps)}}) :
                  one \in {send_one(stats, responses, w, inps)}})

\* the same result for every requested kind
uniform(webhook_types, message, data) ==
    [k \in KindsOf(webhook_types) |->
        [success |-> FALSE, message |-> message, data |-> data]]

\* variant of the code: no validation opens the fan-out
send_to_multiple_webhooks_unvalidated(stats, responses, webhook_types, pre, inps) ==
    IF webhook_types = <<>>
    THEN [stats |-> stats, responses |-> responses, sends |-> <<>>,
          results |-> [error |-> "No webhook types specified"]]
    ELSE fan_out(stats, responses, webhook_types, 1, inps)

\* send_to_multiple_webhooks(payload, webhook_types): pre is the answer of
\* the validation that opens it
send_to_multiple_webhooks(stats, responses, webhook_types, pre, inps) ==
    IF webhook_types = <<>>
    THEN [stats |-> stats, responses |-> responses, sends |-> <<>>,
          results |-> [error |-> "No webhook types specified"]]
    ELSE IF pre = "invalid"
    THEN [stats |-> stats, responses |-> responses, sends |-> <<>>,
          results |-> uniform(webhook_types, "Validation failed",
                              [validation_errors |-> "errors"])]
    ELSE IF pre = "raise"
    THEN [stats |-> stats, responses |-> responses, sends |-> <<>>,
          results |-> uniform(webhook_types, "Validation error",
                              [error |-> "RuntimeError"])]
    ELSE fan_out(stats, responses, webhook_types, 1, inps)

-----------------------------------------------------------------------------
(* State machine of the recorder page *)

\* initialize_session_state: the defaults of a new session
InitialStats == [w \in WEBHOOK_URLS |-> [sent |-> 0, success |-> 0, errors |-> 0]]

NoCall == [raised |-> FALSE, success |-> FALSE, message |-> "", data |-> [error |-> ""],
           call |-> [op |-> "none", webhook_type |-> "", inp |-> [rate |-> ""],
                     asked |-> <<>>, attempts |-> 0, slept |-> <<>>]]

NoPlan == [webhook_type |-> "", inp |-> [rate |-> "ok"]]

InitHook ==
    /\ webhook_stats = InitialStats
    /\ webhook_responses = <<>>
    /\ ret = NoCall
    /\ calls = 0
    /\ last_audio_data = ""
    /\ auto_dispatched = <<>>

\* the session state after one call of send_to_webhook
Call(webhook_type, inp) ==
    LET r == send_to_webhook(webhook_stats, webhook_responses, webhook_type, inp)
    IN  /\ webhook_stats' = r.stats
        /\ webhook_responses' = r.responses
        /\ ret' = r.ret
        /\ calls' = calls + 1

\* a script run that dispatches to one webhook, any payload and collaborators
Dispatch ==
    /\ calls < MaxCalls
    /\ \E w \in WEBHOOK_URLS, inp \in Inputs : Call(w, inp)
    /\ UNCHANGED <<plan, last_audio_data, auto_dispatched, now, project_data, project_last_auto_load, project_sheet_url,
                   project_worksheet_name, project_auto_load_enabled, cache, remote, io>>

\* a script run that repeats the planned call
DispatchPlanned ==
    /\ calls < MaxBurst
    /\ Call(plan.webhook_type, plan.inp)
    /\ UNCHANGED <<plan, last_audio_data, auto_dispatched, now, project_data, project_last_auto_load, project_sheet_url,
                   project_worksheet_name, project_auto_load_enabled, cache, remote, io>>

\* calls of send_to_webhook explored when a sequence of calls is planned
MaxSeq == 3

\* one call per kind of outcome: status 200, status 404, a refusal of the
\* rate limiter, a refusal of the validator, a timeout on every attempt, and
\* an exception of requests that no except clause names
SeqInputs ==
    {[rate |-> "ok", valid |-> "ok", dumps |-> "ok", size |-> MaxPayloadBytes,
      outs |-> t] :
        t \in {<<Response(200), Response(200), Response(200)>>,
               <<Response(404), Response(200), Response(200)>>,
               <<Raises("Timeout"), Raises("Timeout"), Raises("Timeout")>>,
               <<Raises("TooManyRedirects"), Response(200), Response(200)>>}}
    \cup {[rate |-> "limited", valid |-> "ok", dumps |-> "ok",
           size |-> MaxPayloadBytes, outs |-> DefaultOuts],
          [rate |-> "ok", valid |-> "invalid", dumps |-> "ok",
           size |-> MaxPayloadBytes, outs |-> DefaultOuts]}

\* a script run that makes the next call of the planned sequence
DispatchNext ==
    /\ calls < MaxSeq
    /\ Call(plan.seq[calls + 1].webhook_type, plan.seq[calls + 1].inp)
    /\ UNCHANGED <<plan, last_audio_data, auto_dispatched, now, project_data, project_last_auto_load,
                   project_sheet_url, project_worksheet_name,
                   project_auto_load_enabled, cache, remote, io>>

\* calls of send_to_multiple_webhooks explored, the same fan-out repeated
MaxFan == 2

\* the inputs of one fan-out: the validator's answer and, when it lets the
\* payload through, the payload and each endpoint's rate limiter and transport
FanCalls ==
    {[pre |-> v, inps |-> [k \in WEBHOOK_URLS |-> FanInput(v, pl, e[k])]] :
        v \in {"ok"}, pl \in FanPayloads, e \in [WEBHOOK_URLS -> FanEndpoints]}
    \cup {[pre |-> v,
           inps |-> [k \in WEBHOOK_URLS |->
                       FanInput(v, [dumps |-> "ok", size |-> MaxPayloadBytes],
                                [rate |-> r, outs |-> DefaultOuts])]] :
        v \in ValidAnswers \ {"ok"}, r \in RateAnswers \ {"raise"}}

\* the session state after one call of send_to_multiple_webhooks
CallMany(webhook_types, c) ==
    \E r \in {send_to_multiple_webhooks(webhook_stats, webhook_responses,
                                         webhook_types, c.pre, c.inps)} :
        /\ webhook_stats' = r.stats
        /\ webhook_responses' = r.responses
        /\ ret' = [raised |-> FALSE, results |-> r.results, sends |-> r.sends,
                   call |-> [op |-> "send_to_multiple_webhooks",
                             webhook_types |-> webhook_types,
                             pre |-> c.pre, inps |-> c.inps]]
        /\ calls' = calls + 1

\* a script run in batch mode: the planned fan-out
DispatchMany ==
    /\ calls < MaxFan
    /\ CallMany(plan.webhook_types, plan.c)
    /\ UNCHANGED <<plan, last_audio_data, auto_dispatched, now, project_data, project_last_auto_load, project_sheet_url,
                   project_worksheet_name, project_auto_load_enabled, cache, remote, io>>

-----------------------------------------------------------------------------
(* main() of the recorder page: one script run *)

\* the value of webhook_stats while the key is not in st.session_state
Absent == [absent |-> TRUE]

\* variant of the code: the defaults are assigned in every script run
initialize_session_state_overwrite(stats, responses) ==
    [stats |-> InitialStats, responses |-> <<>>]

\* initialize_session_state(): "if key not in st.session_state" assigns the
\* default, for webhook_stats and webhook_responses; both keys are absent
\* before the first script run of a session and present after it
initialize_session_state(stats, responses) ==
    [stats |-> IF stats = Absent THEN InitialStats ELSE stats,
     responses |-> IF stats = Absent THEN <<>> ELSE responses]

\* script runs of the recorder page explored
MaxRuns == 3

\* the widgets of one script run: the captured audio in the hidden text
\* area, the "Send to Webhook" button, and the selector (single endpoint,
\* batch mode with two endpoints, batch mode with nothing selected)
RunInputs ==
    {[audio_data |-> a, clicked |-> b, batch_mode |-> m.batch_mode,
      selected_webhooks |-> m.selected_webhooks,
      selected_webhook_type |-> m.selected_webhook_type] :
        a \in {"", "a1", "a2"}, b \in BOOLEAN,
        m \in {[batch_mode |-> FALSE, selected_webhooks |-> <<>>,
                selected_webhook_type |-> "audio"],
               [batch_mode |-> TRUE, selected_webhooks |-> <<"audio", "books">>,
                selected_webhook_type |-> "audio"],
               [batch_mode |-> TRUE, selected_webhooks |-> <<>>,
                selected_webhook_type |-> "books"]}}

\* the branch "if batch_mode and selected_webhooks: ... else: ..." that both
\* the automatic and the manual send go through; raised tells whether an
\* exception left it, sends lists the calls of send_to_webhook made
dispatch(stats, responses, in, c) ==
    IF in.batch_mode /\ in.selected_webhooks # <<>>
    THEN the({[stats |-> r.stats, responses |-> r.responses, raised |-> FALSE,
               sends |-> r.sends, many |-> 1] :
              r \in {send_to_multiple_webhooks(stats, responses, in.selected_webhooks,
                                               c.pre, c.inps)}})
    ELSE the({[stats |-> r.stats, responses |-> r.responses, raised |-> r.ret.raised,
               sends |-> <<r.ret.call>>, many |-> 0] :
              r \in {send_to_webhook(stats, responses, in.selected_webhook_type,
                                     c.inps[in.selected_webhook_type])}})

\* the automatic send of main() runs: the text area holds audio that differs
\* from last_audio_data
auto_sends(in, last) == in.audio_data # "" /\ in.audio_data # last

\* the manual send of main() runs: the button was pressed and the text
\* area holds audio
manual_sends(in) == in.clicked /\ in.audio_data # ""

\* variant of the code: the manual send is left out in a script run that
\* made the automatic send
main_run_one_send(stats, responses, last, in, c) ==
    LET s0 == initialize_session_state(stats, responses)
        auto == auto_sends(in, last)
        d1 == IF auto THEN dispatch(s0.stats, s0.responses, in, c)
              ELSE [stats |-> s0.stats, responses |-> s0.responses,
                    raised |-> FALSE, sends |-> <<>>, many |-> 0]
        manual == manual_sends(in) /\ ~auto
        d2 == IF manual THEN dispatch(d1.stats, d1.responses, in, c)
              ELSE [stats |-> d1.stats, responses |-> d1.responses,
                    raised |-> d1.raised, sends |-> <<>>, many |-> 0]
    IN  [stats |-> d2.stats, responses |-> d2.responses,
         last_audio_data |-> IF auto THEN in.audio_data ELSE last,
         raised |-> d2.raised,
         triggers |-> (IF auto THEN <<"auto">> ELSE <<>>)
                      \o (IF manual THEN <<"manual">> ELSE <<>>),
         sends |-> d1.sends \o d2.sends,
         fanouts |-> d1.many + d2.many]

\* variant of the code: the audio data is remembered after the automatic
\* send, and only when no exception left it
main_run_remember_after(stats, responses, last, in, c) ==
    LET s0 == initialize_session_state(stats, responses)
        auto == auto_sends(in, last)
        first == IF auto THEN dispatch(s0.stats, s0.responses, in, c)
                 ELSE [stats |-> s0.stats, responses |-> s0.responses,
                       raised |-> FALSE, sends |-> <<>>, many |-> 0]
        second(d1) == IF manual_sends(in) /\ ~d1.raised
                      THEN dispatch(d1.stats, d1.responses, in, c)
                      ELSE [stats |-> d1.stats, responses |-> d1.responses,
                            raised |-> d1.raised, sends |-> <<>>, many |-> 0]
    IN  the({the({[stats |-> d2.stats, responses |-> d2.responses,
                   last_audio_data |-> IF auto /\ ~d1.raised THEN in.audio_data
                                       ELSE last,
                   raised |-> d2.raised,
                   triggers |-> (IF auto THEN <<"auto">> ELSE <<>>)
                                \o (IF manual_sends(in) /\ ~d1.raised
                                    THEN <<"manual">> ELSE <<>>),
                   sends |-> d1.sends \o d2.sends,
                   fanouts |-> d1.many + d2.many] :
                  d2 \in {second(d1)}}) :
             d1 \in {first}})

\* main(): initialize_session_state, the automatic send, then the manual
\* send; an exception that leaves a send ends the script run. triggers
\* lists the sends made, in order
main_run(stats, responses, last, in, c) ==
    LET s0 == initialize_session_state(stats, responses)
        auto == auto_sends(in, last)
        first == IF auto THEN dispatch(s0.stats, s0.responses, in, c)
                 ELSE [stats |-> s0.stats, responses |-> s0.responses,
                       raised |-> FALSE, sends |-> <<>>, many |-> 0]
        second(d1) == IF manual_sends(in) /\ ~d1.raised
                      THEN dispatch(d1.stats, d1.responses, in, c)
                      ELSE [stats |-> d1.stats, responses |-> d1.responses,
                            raised |-> d1.raised, sends |-> <<>>, many |-> 0]
    IN  the({the({[stats |-> d2.stats, responses |-> d2.responses,
                   last_audio_data |-> IF auto THEN in.audio_data ELSE last,
                   raised |-> d2.raised,
                   triggers |-> (IF auto THEN <<"auto">> ELSE <<>>)
                                \o (IF manual_sends(in) /\ ~d1.raised
                                    THEN <<"manual">> ELSE <<>>),
                   sends |-> d1.sends \o d2.sends,
                   fanouts |-> d1.many + d2.many] :
                  d2 \in {second(d1)}}) :
             d1 \in {first}})

\* the behaviours of the collaborators during a session of the page: the
\* payload passes the validator or not, and each endpoint's rate limiter and
\* transport answer as in a fan-out
PageCalls == {c \in FanCalls : c.inps["audio"].dumps = "ok"
                                /\ c.inps["audio"].size = MaxPayloadBytes}

\* a session of the recorder page before its first script run
InitPage ==
    /\ webhook_stats = Absent
    /\ webhook_responses = <<>>
    /\ ret = NoCall
    /\ calls = 0
    /\ last_audio_data = ""
    /\ auto_dispatched = <<>>
    /\ plan \in {[c |-> c] : c \in PageCalls}

\* one script run of the recorder page
RunMain ==
    /\ calls < MaxRuns
    /\ \E in \in RunInputs :
        \E r \in {main_run(webhook_stats, webhook_responses, last_audio_data, in,
                            plan.c)} :
            /\ webhook_stats' = r.stats
            /\ webhook_responses' = r.responses
            /\ last_audio_data' = r.last_audio_data
            /\ auto_dispatched' = IF r.triggers # <<>> /\ r.triggers[1] = "auto"
                                  THEN Append(auto_dispatched, in.audio_data)
                                  ELSE auto_dispatched
            /\ ret' = [raised |-> r.raised, triggers |-> r.triggers,
                       sends |-> r.sends, fanouts |-> r.fanouts,
                       call |-> [op |-> "main", in |-> in]]
            /\ calls' = calls + 1
    /\ UNCHANGED <<plan, now, project_data, project_last_auto_load, project_sheet_url,
                   project_worksheet_name, project_auto_load_enabled, cache, remote, io>>

-----------------------------------------------------------------------------
(* pages/10_Project_Management.py: data and collaborators *)

\* latest value of datetime.now() explored
MaxTime == 300

\* rows a table may hold
MaxRows == 2

\* seconds that pass between two script runs: just inside the 300 s window
\* and at its end
Steps == {299, 300}

\* sheet URLs the user may configure ("" is the unconfigured default)
SheetUrls == {"", "s1", "s2"}

\* worksheet names the user may configure ("" is the first worksheet)
WorksheetNames == {""}

Keys == (SheetUrls \ {""}) \X WorksheetNames

\* a row, named by its 'Project Name'
RowVals == {"P1", "P2"}

\* Python's None as the value of project_data
None == <<"None">>

\* Python's None as the value of project_last_auto_load
NoTime == -1

\* the remote sheets when the session starts: one sheet is empty
InitialRemote == [k \in Keys |-> IF k = <<"s2", "">> THEN <<>> ELSE <<"P1">>]

\* the session and its collaborators as one value, so that the functions of
\* the page compose: log lists the manager calls of the script run
SessionNow ==
    [project_data |-> project_data,
     project_last_auto_load |-> project_last_auto_load,
     project_sheet_url |-> project_sheet_url,
     project_worksheet_name |-> project_worksheet_name,
     project_auto_load_enabled |-> project_auto_load_enabled,
     cache |-> cache, remote |-> remote, log |-> <<>>]

Logged(s, entry) == [s EXCEPT !.log = Append(@, entry)]

-----------------------------------------------------------------------------
(* utils/gsheet_manager.py: the sheets manager (not in the source tree) *)

\* freshness window of a manager cache entry, in seconds
cache_ttl == 300

\* the manager's key of a sheet: (sheet id, worksheet name), None and ''
\* both naming the first worksheet
cache_key(sheet_id, worksheet_name) == <<sheet_id, worksheet_name>>

\* get_sheet_data(sheet_id, worksheet_name, use_cache) at time t, the
\* remote read succeeding or not: df is the table returned
get_sheet_data(s, sheet_id, worksheet_name, use_cache, t, fetch_ok) ==
    LET k == cache_key(sheet_id, worksheet_name)
    IN  IF use_cache /\ s.cache[k] # <<>> /\ t - s.cache[k][1].fetched_at < cache_ttl
        THEN [s |-> Logged(s, [op |-> "hit", key |-> k]), raised |-> FALSE,
              df |-> s.cache[k][1].table]
        ELSE IF fetch_ok
        THEN [s |-> Logged([s EXCEPT !.cache[k] =
                               <<[table |-> s.remote[k], fetched_at |-> t]>>],
                           [op |-> "fetch", key |-> k, ok |-> TRUE]),
              raised |-> FALSE, df |-> s.remote[k]]
        ELSE [s |-> Logged(s, [op |-> "fetch", key |-> k, ok |-> FALSE]),
              raised |-> TRUE, df |-> None]

\* clear_cache(): drops every entry
clear_cache(s) == Logged([s EXCEPT !.cache = [k \in Keys |-> <<>>]], [op |-> "clear"])

\* update_sheet_data(sheet_id, df, worksheet_name): replaces the remote
\* table and invalidates the entry; False when the remote write fails
update_sheet_data(s, sheet_id, df, worksheet_name, write_ok) ==
    LET k == cache_key(sheet_id, worksheet_name)
    IN  IF sheet_id # "" /\ write_ok
        THEN [s |-> Logged([s EXCEPT !.remote[k] = df, !.cache[k] = <<>>],
                           [op |-> "update", key |-> k, ok |-> TRUE]),
              ok |-> TRUE]
        ELSE [s |-> Logged(s, [op |-> "update", key |-> k, ok |-> FALSE]), ok |-> FALSE]

\* append_row(sheet_id, row, worksheet_name): appends to the remote table
\* and invalidates the entry; False when the remote write fails
append_row(s, sheet_id, row, worksheet_name, write_ok) ==
    LET k == cache_key(sheet_id, worksheet_name)
    IN  IF sheet_id # "" /\ write_ok
        THEN [s |-> Logged([s EXCEPT !.remote[k] = Append(@, row), !.cache[k] = <<>>],
                           [op |-> "append", key |-> k, ok |-> TRUE]),
              ok |-> TRUE]
        ELSE [s |-> Logged(s, [op |-> "append", key |-> k, ok |-> FALSE]), ok |-> FALSE]

-----------------------------------------------------------------------------
(* pages/10_Project_Management.py: the functions of the page *)

\* "time_since_load.total_seconds() < 300": the 5 minutes cache
auto_load_window == 300

\* variant of the code: the window includes its end ("<= 300")
session_is_fresh_inclusive(s, t) ==
    /\ s.project_data # None
    /\ s.project_last_auto_load # NoTime
    /\ t - s.project_last_auto_load <= auto_load_window

\* the condition under which auto_load_project_data returns without reading
session_is_fresh(s, t) ==
    /\ s.project_data # None
    /\ s.project_last_auto_load # NoTime
    /\ t - s.project_last_auto_load < auto_load_window

\* "df is not None and not df.empty"
has_rows(df) == df # None /\ df # <<>>

\* auto_load_project_data reading past the manager's stored table
\* (use_cache=False)
auto_load_project_data_no_cache(s, t, fetch_ok) ==
    IF ~s.project_auto_load_enabled THEN s
    ELSE IF session_is_fresh(s, t) THEN s
    ELSE IF s.project_sheet_url = "" THEN s
    ELSE LET g == get_sheet_data(s, s.project_sheet_url, s.project_worksheet_name,
                                 FALSE, t, fetch_ok)
         IN  IF g.raised THEN g.s
             ELSE IF has_rows(g.df)
             THEN [g.s EXCEPT !.project_data = g.df, !.project_last_auto_load = t]
             ELSE g.s

\* variant of the code: the table that was read is stored without looking
\* at whether it has rows
auto_load_project_data_store_any(s, t, fetch_ok) ==
    IF ~s.project_auto_load_enabled THEN s
    ELSE IF session_is_fresh(s, t) THEN s
    ELSE IF s.project_sheet_url = "" THEN s
    ELSE LET g == get_sheet_data(s, s.project_sheet_url, s.project_worksheet_name,
                                 TRUE, t, fetch_ok)
         IN  IF g.raised THEN g.s
             ELSE [g.s EXCEPT !.project_data = g.df, !.project_last_auto_load = t]

\* auto_load_project_data(sheets_manager) at time t
auto_load_project_data(s, t, fetch_ok) ==
    IF ~s.project_auto_load_enabled THEN s
    ELSE IF session_is_fresh(s, t) THEN s
    ELSE IF s.project_sheet_url = "" THEN s
    ELSE LET g == get_sheet_data(s, s.project_sheet_url, s.project_worksheet_name,
                                 TRUE, t, fetch_ok)
         IN  IF g.raised THEN g.s
             ELSE IF has_rows(g.df)
             THEN [g.s EXCEPT !.project_data = g.df, !.project_last_auto_load = t]
             ELSE g.s

\* force_reload_project_data(sheets_manager) at time t; rerun tells whether
\* st.rerun() ended the script run
force_reload_project_data(s, t, fetch_ok) ==
    IF s.project_sheet_url = "" THEN [s |-> s, rerun |-> FALSE]
    ELSE LET g == get_sheet_data(clear_cache(s), s.project_sheet_url,
                                 s.project_worksheet_name, FALSE, t, fetch_ok)
         IN  IF g.raised THEN [s |-> g.s, rerun |-> FALSE]
             ELSE IF has_rows(g.df)
             THEN [s |-> [g.s EXCEPT !.project_data = g.df,
                                     !.project_last_auto_load = t],
                   rerun |-> TRUE]
             ELSE [s |-> g.s, rerun |-> FALSE]

\* update_configuration reloading before the new settings are assigned
update_configuration_reload_first(s, t, sheet_url, worksheet_name, auto_load, fetch_ok) ==
    LET r == IF auto_load /\ sheet_url # ""
             THEN force_reload_project_data(s, t, fetch_ok)
             ELSE [s |-> s, rerun |-> FALSE]
    IN  [s |-> [r.s EXCEPT !.project_sheet_url = sheet_url,
                           !.project_worksheet_name = worksheet_name,
                           !.project_auto_load_enabled = auto_load],
         rerun |-> r.rerun]

\* update_configuration(sheets_manager, sheet_url, worksheet_name, auto_load)
update_configuration(s, t, sheet_url, worksheet_name, auto_load, fetch_ok) ==
    LET c == [s EXCEPT !.project_sheet_url = sheet_url,
                       !.project_worksheet_name = worksheet_name,
                       !.project_auto_load_enabled = auto_load]
    IN  IF auto_load /\ sheet_url # ""
        THEN force_reload_project_data(c, t, fetch_ok)
        ELSE [s |-> c, rerun |-> FALSE]

\* variant of the code: the loop has no "if idx in original_indices"
merge_edits_any_index(full_df, edited_df, original_indices) ==
    [i \in DOMAIN full_df |->
        IF i \in DOMAIN edited_df THEN edited_df[i] ELSE full_df[i]]

\* the loop of save_project_changes: the rows of edited_df whose index is in
\* original_indices replace the rows of the full table
merge_edits(full_df, edited_df, original_indices) ==
    [i \in DOMAIN full_df |->
        IF i \in DOMAIN edited_df /\ i \in original_indices
        THEN edited_df[i] ELSE full_df[i]]

\* save_project_changes without the refresh of project_last_auto_load
save_project_changes_keep_timestamp(s, t, edited_df, original_indices, write_ok) ==
    LET full_df == merge_edits(s.project_data, edited_df, original_indices)
        u == update_sheet_data(s, s.project_sheet_url, full_df,
                               s.project_worksheet_name, write_ok)
    IN  IF u.ok
        THEN [s |-> [u.s EXCEPT !.project_data = full_df], rerun |-> FALSE]
        ELSE [s |-> u.s, rerun |-> FALSE]

\* save_project_changes(sheets_manager, edited_df, original_indices) at time t
save_project_changes(s, t, edited_df, original_indices, write_ok) ==
    LET full_df == merge_edits(s.project_data, edited_df, original_indices)
        u == update_sheet_data(s, s.project_sheet_url, full_df,
                               s.project_worksheet_name, write_ok)
    IN  IF u.ok
        THEN [s |-> [u.s EXCEPT !.project_data = full_df,
                                !.project_last_auto_load = t],
              rerun |-> FALSE]
        ELSE [s |-> u.s, rerun |-> FALSE]

\* "isinstance(value, datetime.date)" in the submit branch of
\* render_add_project_tab: the module imports the class ("from datetime
\* import datetime"), so datetime.date is a method and not a type, and
\* isinstance raises TypeError for every value
isinstance_raises == TRUE

\* the submit branch of the add-project form with its required fields
\* filled: building new_row raises in the first iteration over df.columns
\* and "except Exception" reports it, so append_row is not reached
add_project(s, t, new_row, write_ok, fetch_ok) ==
    IF isinstance_raises THEN [s |-> s, rerun |-> FALSE]
    ELSE LET a == append_row(s, s.project_sheet_url, new_row,
                             s.project_worksheet_name, write_ok)
         IN  IF a.ok
             THEN force_reload_project_data(clear_cache(a.s), t, fetch_ok)
             ELSE [s |-> a.s, rerun |-> FALSE]

\* create_sample_project_data behind the "Generate Sample Data" button
generate_sample(s, t) ==
    [s |-> [s EXCEPT !.project_data = <<"P1", "P2">>, !.project_last_auto_load = t],
     rerun |-> TRUE]

-----------------------------------------------------------------------------
(* State machine of the project page: one action per script run *)

InitSheet ==
    /\ now = 0
    /\ project_data = None
    /\ project_last_auto_load = NoTime
    /\ project_sheet_url = ""
    /\ project_worksheet_name = ""
    /\ project_auto_load_enabled = TRUE
    /\ cache = [k \in Keys |-> <<>>]
    /\ remote = InitialRemote
    /\ io = [event |-> "start", log |-> <<>>]

\* main(): auto_load_project_data first, then the handler of the widget
\* that caused the run; after st.rerun() the script runs again from the top
\* and auto-loads once more. h is the handler's result on the auto-loaded
\* session. Each run draws f1, whether the remote read of the first
\* auto-load succeeds, and f2, whether those after it do
EndRun(event, h, fetch_ok) ==
    LET s == IF h.rerun
             THEN auto_load_project_data(Logged(h.s, [op |-> "rerun"]), now, fetch_ok)
             ELSE h.s
    IN  /\ project_data' = s.project_data
        /\ project_last_auto_load' = s.project_last_auto_load
        /\ project_sheet_url' = s.project_sheet_url
        /\ project_worksheet_name' = s.project_worksheet_name
        /\ project_auto_load_enabled' = s.project_auto_load_enabled
        /\ cache' = s.cache
        /\ remote' = s.remote
        /\ io' = [event |-> event, log |-> s.log]
        /\ UNCHANGED <<now, webhook_stats, webhook_responses, ret, calls, plan,
                       last_audio_data, auto_dispatched>>

\* a run caused by a widget that touches no data
RunPlain ==
    \E f1 \in BOOLEAN :
        EndRun("none", [s |-> auto_load_project_data(SessionNow, now, f1),
                        rerun |-> FALSE], TRUE)

\* "Update Config" of the overview tab
RunUpdateConfig ==
    \E f1 \in BOOLEAN, f2 \in BOOLEAN,
       u \in SheetUrls, w \in WorksheetNames, a \in BOOLEAN :
        EndRun("update_config",
               update_configuration(auto_load_project_data(SessionNow, now, f1),
                                    now, u, w, a, f2), f2)

\* "Reload Now", "Refresh Data" and "Try Loading Data Now"
RunReload ==
    \E f1 \in BOOLEAN, f2 \in BOOLEAN :
        EndRun("reload",
               force_reload_project_data(auto_load_project_data(SessionNow, now, f1),
                                         now, f2), f2)

\* "Generate Sample Data", shown while no table is loaded
RunGenerateSample ==
    \E f1 \in BOOLEAN, f2 \in BOOLEAN :
        LET s1 == auto_load_project_data(SessionNow, now, f1)
        IN  /\ s1.project_data = None
            /\ EndRun("generate_sample", generate_sample(s1, now), f2)

\* "Save Changes" of the project list: the editor shows the rows with index
\* in page, and the user has set them to edited
RunSaveChanges ==
    /\ project_data # None
    /\ \E f1 \in BOOLEAN, write_ok \in BOOLEAN :
        LET s1 == auto_load_project_data(SessionNow, now, f1)
        IN  \E page \in SUBSET (DOMAIN s1.project_data) :
            \E edited \in [page -> RowVals] :
                EndRun("save_changes",
                       save_project_changes(s1, now, edited, page, write_ok), TRUE)

\* "Add Project" with the required fields filled
RunAddProject ==
    /\ project_data # None
    /\ \E f1 \in BOOLEAN, f2 \in BOOLEAN, write_ok \in BOOLEAN, new_row \in RowVals :
        LET s1 == auto_load_project_data(SessionNow, now, f1)
        IN  /\ \A k \in Keys : Len(s1.remote[k]) < MaxRows
            /\ EndRun("add_project", add_project(s1, now, new_row, write_ok, f2), f2)

\* "Save Auto-Load Settings" of the settings tab
RunSaveSettings ==
    \E f1 \in BOOLEAN, a \in BOOLEAN :
        EndRun("save_settings",
               [s |-> [auto_load_project_data(SessionNow, now, f1)
                          EXCEPT !.project_auto_load_enabled = a],
                rerun |-> FALSE], TRUE)

\* "Clear Cache" of the settings tab: clear_cache(), then st.rerun()
RunClearCache ==
    \E f1 \in BOOLEAN, f2 \in BOOLEAN :
        EndRun("clear_cache",
               [s |-> clear_cache(auto_load_project_data(SessionNow, now, f1)),
                rerun |-> TRUE], f2)

\* time passes between two script runs
Tick ==
    /\ \E d \in Steps : now + d <= MaxTime /\ now' = now + d
    /\ io' = [event |-> "tick", log |-> <<>>]
    /\ UNCHANGED <<project_data, project_last_auto_load, project_sheet_url,
                   project_worksheet_name, project_auto_load_enabled, cache, remote,
                   webhook_stats, webhook_responses, ret, calls, plan,
                   last_audio_data, auto_dispatched>>

-----------------------------------------------------------------------------
(* Specifications *)

\* the recorder page, calls with free inputs
InitFree == InitHook /\ InitSheet /\ plan = NoPlan

NextHook == Dispatch

SpecHook == InitFree /\ [][NextHook]_vars

\* the recorder page, one call repeated
Plans == {[webhook_type |-> w, inp |-> i] : w \in WEBHOOK_URLS, i \in Inputs}

InitBurst == InitHook /\ InitSheet /\ plan \in Plans

NextBurst == DispatchPlanned

SpecBurst == InitBurst /\ [][NextBurst]_vars

\* the recorder page, a sequence of calls with different outcomes
SeqPlans ==
    {[seq |-> s] :
        s \in [1..MaxSeq -> {[webhook_type |-> w, inp |-> i] :
                                w \in WEBHOOK_URLS, i \in SeqInputs}]}

InitSeq == InitHook /\ InitSheet /\ plan \in SeqPlans

NextSeq == DispatchNext

SpecSeq == InitSeq /\ [][NextSeq]_vars

\* the recorder page in batch mode: any list of kinds, any payload and
\* collaborators, the fan-out repeated
FanPlans == {[webhook_types |-> l, c |-> c] : l \in KindLists, c \in FanCalls}

InitMany == InitHook /\ InitSheet /\ plan \in FanPlans

NextMany == DispatchMany

SpecMany == InitMany /\ [][NextMany]_vars

\* the recorder page, script run by script run
NextPage == RunMain

InitSession == InitPage /\ InitSheet

SpecPage == InitSession /\ [][NextPage]_vars

\* the project page
NextSheet ==
    \/ RunPlain
    \/ RunUpdateConfig
    \/ RunReload
    \/ RunGenerateSample
    \/ RunSaveChanges
    \/ RunAddProject
    \/ RunSaveSettings
    \/ RunClearCache
    \/ Tick

SpecSheet == InitFree /\ [][NextSheet]_vars

\* a session on one of the two pages: on the recorder page plan holds the
\* behaviours of its collaborators, on the project page it holds none
OnRecorder == plan # NoPlan

InitUI == InitSession \/ InitFree

NextUI ==
    \/ OnRecorder /\ NextPage
    \/ ~OnRecorder /\ NextSheet

SpecUI == InitUI /\ [][NextUI]_vars

-----------------------------------------------------------------------------
(* Vocabulary of the claims about send_to_webhook *)

\* the last step was a call of send_to_webhook, and ret describes it
Called == ret.call.op = "send_to_webhook"

\* the step from the unprimed to the primed state is a call of send_to_webhook
CallStep == calls' = calls + 1 /\ ret'.call.op = "send_to_webhook"

\* record r is the error record labelled label
IsError(r, label) == "error" \in DOMAIN r /\ r.error = label

\* the call returned the triple (False, _, data) with data labelled label
Refused(r, label) == ~r.raised /\ ~r.success /\ IsError(r.data, label)

\* the history begins with the record the call returned
HeadIs(responses, r) == Len(responses) > 0 /\ ~r.raised /\ responses[1] = r.data

\* position of the first HTTP response in a transcript, 0 when there is none
FirstResponse(outs) ==
    IF \E i \in 1..Len(outs) : outs[i].kind = "response"
    THEN CHOOSE i \in 1..Len(outs) :
            /\ outs[i].kind = "response"
            /\ \A j \in 1..(i - 1) : outs[j].kind # "response"
    ELSE 0

-----------------------------------------------------------------------------
(* Vocabulary of the claims about the project page *)

\* positions of the remote reads in the manager calls of a script run
Fetches(log) == {i \in 1..Len(log) : log[i].op = "fetch"}

\* positions of the reads served from the manager's stored table
Hits(log) == {i \in 1..Len(log) : log[i].op = "hit"}

\* positions of the writes that returned True
WritesDone(log) == {i \in 1..Len(log) : log[i].op \in {"update", "append"} /\ log[i].ok}

\* the key of the configured sheet
ConfiguredKey == cache_key(project_sheet_url, project_worksheet_name)

\* the last script run saved or appended, and the manager returned True
WriteSucceeded == io.event \in {"save_changes", "add_project"} /\ WritesDone(io.log) # {}

\* the manager holds a table for the configured sheet fetched less than
\* cache_ttl seconds ago
EntryFresh ==
    /\ project_sheet_url # ""
    /\ cache[ConfiguredKey] # <<>>
    /\ now - cache[ConfiguredKey][1].fetched_at < cache_ttl

\* the events whose script run reads the sheet through auto-load only
AutoLoadOnly(event) == event \in {"none", "save_settings"}

-----------------------------------------------------------------------------
(* C1 *)

\* C1 as stated: after an append or a save for a key returned success, the
\* next read of that key, that is the auto-load of the next script run,
\* fetches from the remote source again, also when fewer than 300 seconds
\* have passed since the last fetch.
C1_NextReadFetches ==
    [][(WriteSucceeded /\ project_auto_load_enabled /\ io'.event = "none")
          => \E i \in Fetches(io'.log) : io'.log[i].key = ConfiguredKey]_vars

\* C1 as amended: when a save (update of the table) returned success, the
\* session holds exactly the table that was written, project_last_auto_load
\* is the time of the save and the manager holds no table for the key; the
\* script run reads nothing after the write, an auto-load within 300
\* seconds of the save reads nothing either, and the next read that reaches
\* the manager (a forced reload, or the auto-load once 300 seconds have
\* passed) fetches from the remote source. A successful append is followed
\* in the same script run by a cleared cache and a forced reload, which
\* fetches.
C1_WriteThrough ==
    /\ (io.event = "save_changes" /\ WritesDone(io.log) # {})
          => LET k == ConfiguredKey
                 w == CHOOSE i \in WritesDone(io.log) : TRUE
             IN  /\ project_data = remote[k]
                 /\ project_last_auto_load = now
                 /\ cache[k] = <<>>
                 /\ \A i \in Fetches(io.log) : i < w
                 /\ Fetches(auto_load_project_data(SessionNow, now, TRUE).log) = {}
                 /\ Fetches(auto_load_project_data(SessionNow,
                        now + auto_load_window - 1, TRUE).log) = {}
                 /\ project_auto_load_enabled
                       => Fetches(auto_load_project_data(SessionNow,
                              now + auto_load_window, TRUE).log) # {}
                 /\ Fetches(force_reload_project_data(SessionNow, now, TRUE).s.log) # {}
    /\ project_sheet_url # ""
          => \A row \in RowVals :
                LET a == append_row(SessionNow, project_sheet_url, row,
                                    project_worksheet_name, TRUE)
                    r == force_reload_project_data(clear_cache(a.s), now, TRUE).s
                IN  a.ok => \E i \in Fetches(r.log), j \in WritesDone(r.log) : j < i

\* a save returned success 299 seconds after the table was loaded, with
\* auto-load enabled, and the saved table differs from the loaded one
C1_Witness ==
    /\ io.event = "save_changes"
    /\ WritesDone(io.log) # {}
    /\ project_auto_load_enabled
    /\ now = 299
    /\ project_data = <<"P2">>

-----------------------------------------------------------------------------
(* C2 *)

\* C2: a script run that reads the sheet through auto-load only, started
\* while the session's table is less than 300 seconds old or the manager
\* holds a table for the configured key fetched less than 300 seconds ago
\* (no write, clear or forced reload having dropped it), makes no remote
\* fetch: either the session's table is kept as it is, or the read is served
\* from the manager's stored table.
C2_OneFetchWithinTTL ==
    [][(AutoLoadOnly(io'.event) /\ (session_is_fresh(SessionNow, now) \/ EntryFresh))
          => /\ Fetches(io'.log) = {}
             /\ session_is_fresh(SessionNow, now)
                   => /\ project_data' = project_data
                      /\ project_last_auto_load' = project_last_auto_load
                      /\ Hits(io'.log) = {}
             /\ (~session_is_fresh(SessionNow, now) /\ project_auto_load_enabled)
                   => /\ Hits(io'.log) # {}
                      /\ has_rows(cache[ConfiguredKey][1].table)
                            => project_data' = cache[ConfiguredKey][1].table]_vars

\* a second read 299 seconds after the fetch was served from the manager's
\* stored table
C2_Witness ==
    /\ io.event = "none"
    /\ Hits(io.log) # {}
    /\ Fetches(io.log) = {}
    /\ EntryFresh
    /\ now - cache[ConfiguredKey][1].fetched_at = 299

-----------------------------------------------------------------------------
(* C3 *)

\* C3 as stated: the gates run in the order validate, sanitize, size-check,
\* rate-check, so a payload that fails validation (or the size check) while
\* the user is rate-limited is reported as a validation (or size) failure, and
\* the rate limiter is asked only about payloads that passed validation and
\* the size check.
C3_ValidateBeforeRate ==
    Called =>
        LET i == ret.call.inp
        IN  /\ (i.rate = "limited" /\ i.valid = "invalid")
                => Refused(ret, "Validation failed")
            /\ (i.rate = "limited" /\ i.valid = "ok" /\ i.dumps = "ok"
                    /\ i.size > MaxPayloadBytes)
                => Refused(ret, "Payload too large")
            /\ (\E n \in 1..Len(ret.call.asked) : ret.call.asked[n] = "rate")
                => (i.valid = "ok" /\ i.dumps = "ok" /\ i.size <= MaxPayloadBytes)

\* C3 as amended: the gates run in the order rate-check, validate, sanitize,
\* size-check, send-with-retry and the call stops at the first that fails: a
\* rate-limited call is reported as the rate-limit refusal whatever the
\* payload, and only the rate limiter was asked; an invalid payload of an
\* admitted user is reported as validation failure, before sanitize and the
\* size check; an oversized valid payload as too large; and the transport is
\* reached only by calls that passed every gate.
C3_GateOrder ==
    Called =>
        LET i == ret.call.inp
            c == ret.call
        IN  /\ i.rate = "limited"
                => (Refused(ret, "Rate limit exceeded") /\ c.asked = <<"rate">>
                    /\ c.attempts = 0)
            /\ (i.rate = "ok" /\ i.valid = "invalid")
                => (Refused(ret, "Validation failed") /\ c.asked = <<"rate", "validate">>
                    /\ c.attempts = 0)
            /\ (i.rate = "ok" /\ i.valid = "ok" /\ i.dumps = "ok"
                    /\ i.size > MaxPayloadBytes)
                => (Refused(ret, "Payload too large")
                    /\ c.asked = <<"rate", "validate", "sanitize", "dumps">>
                    /\ c.attempts = 0)
            /\ c.attempts > 0 => PassesGates(i)

\* an invalid payload of a rate-limited user, reported as rate limit exceeded
C3_Witness ==
    /\ Called
    /\ ret.call.inp.rate = "limited"
    /\ ret.call.inp.valid = "invalid"
    /\ Refused(ret, "Rate limit exceeded")
    /\ HeadIs(webhook_responses, ret)

-----------------------------------------------------------------------------
(* C4 *)

\* C4: validation gate. A call whose payload the validator reports invalid
\* makes no send attempt, and the sent counter of its endpoint is unchanged.
C4_ValidationGate ==
    [][(CallStep /\ ret'.call.inp.valid = "invalid")
        => /\ ret'.call.attempts = 0
           /\ webhook_stats'[ret'.call.webhook_type].sent
                = webhook_stats[ret'.call.webhook_type].sent]_vars

\* an invalid payload of an admitted user was refused by the validation gate
C4_Witness ==
    /\ Called
    /\ ret.call.inp.rate = "ok"
    /\ ret.call.inp.valid = "invalid"
    /\ Refused(ret, "Validation failed")
    /\ ret.call.attempts = 0

-----------------------------------------------------------------------------
(* C5 *)

\* C5 as stated: size gate. A payload whose serialized size is strictly
\* greater than 10 MiB is rejected with zero send attempts and sent unchanged,
\* and the history gains a payload-too-large record for that endpoint; a
\* payload of exactly 10 MiB or less passes the size gate.
C5_EveryOversizedPayload ==
    [][(CallStep /\ ret'.call.inp.dumps = "ok" /\ ret'.call.inp.valid # "raise"
            /\ ret'.call.inp.rate # "raise")
        => LET i == ret'.call.inp
               w == ret'.call.webhook_type
           IN  /\ i.size > MaxPayloadBytes
                    => /\ ret'.call.attempts = 0
                       /\ webhook_stats'[w].sent = webhook_stats[w].sent
                       /\ Len(webhook_responses') > 0
                       /\ IsError(webhook_responses'[1], "Payload too large")
                       /\ webhook_responses'[1].webhook_type = w
               /\ (i.size <= MaxPayloadBytes /\ i.rate = "ok" /\ i.valid = "ok")
                    => ret'.call.attempts >= 1]_vars

\* C5 as amended: a payload that the rate limiter admits and the validator
\* accepts and whose sanitized serialization is strictly greater than 10 MiB
\* is rejected with zero send attempts and sent unchanged, and the history
\* gains, at its head, a payload-too-large record for that endpoint holding
\* the size; such a payload of exactly 10 MiB passes the size gate and is
\* sent. (An oversized payload refused by an earlier gate is recorded as that
\* gate's refusal.)
C5_SizeGate ==
    [][(CallStep /\ ret'.call.inp.rate = "ok" /\ ret'.call.inp.valid = "ok"
            /\ ret'.call.inp.dumps = "ok")
        => LET i == ret'.call.inp
               w == ret'.call.webhook_type
           IN  /\ i.size > MaxPayloadBytes
                    => /\ ret'.call.attempts = 0
                       /\ webhook_stats'[w].sent = webhook_stats[w].sent
                       /\ Refused(ret', "Payload too large")
                       /\ webhook_responses' = <<ret'.data>> \o webhook_responses
                       /\ ret'.data.webhook_type = w
                       /\ ret'.data.payload_size = i.size
               /\ i.size <= MaxPayloadBytes
                    => /\ ret'.call.attempts >= 1
                       /\ webhook_stats'[w].sent = webhook_stats[w].sent + 1]_vars

\* a valid payload of MaxPayloadBytes + 1 bytes of an admitted user was
\* refused as too large without a send attempt
C5_Witness ==
    /\ Called
    /\ ret.call.inp.rate = "ok"
    /\ ret.call.inp.valid = "ok"
    /\ ret.call.inp.size = MaxPayloadBytes + 1
    /\ Refused(ret, "Payload too large")
    /\ HeadIs(webhook_responses, ret)
    /\ ret.call.attempts = 0

-----------------------------------------------------------------------------
(* C6 *)

\* C6: rate-limit gate. When check_rate_limit answers not-ok the call makes
\* no send attempt, returns failure, leaves the sent counter of its endpoint
\* unchanged and puts a rate-limit-exceeded record for the endpoint into the
\* history.
C6_RateLimitGate ==
    [][(CallStep /\ ret'.call.inp.rate = "limited")
        => LET w == ret'.call.webhook_type
           IN  /\ ret'.call.attempts = 0
               /\ Refused(ret', "Rate limit exceeded")
               /\ webhook_stats'[w].sent = webhook_stats[w].sent
               /\ webhook_responses' = <<ret'.data>> \o webhook_responses
               /\ ret'.data.webhook_type = w]_vars

\* a rate-limited call with an otherwise sendable payload was refused
C6_Witness ==
    /\ Called
    /\ ret.call.inp.rate = "limited"
    /\ ret.call.inp.valid = "ok"
    /\ ret.call.inp.size <= MaxPayloadBytes
    /\ Refused(ret, "Rate limit exceeded")
    /\ HeadIs(webhook_responses, ret)
    /\ webhook_stats[ret.call.webhook_type].sent = 0

-----------------------------------------------------------------------------
(* C7 *)

\* the transport times out on every attempt
AlwaysTimesOut(outs) == \A n \in 1..Len(outs) : outs[n] = Raises("Timeout")

\* C7: retry bound. With a transport that times out on every
\* attempt the call makes exactly 3 send attempts, then returns failure, and
\* the result it returns and records has attempt_count equal to 3.
C7_AttemptCountRecorded ==
    (Called /\ PassesGates(ret.call.inp) /\ AlwaysTimesOut(ret.call.inp.outs))
        => /\ ret.call.attempts = 3
           /\ ~ret.raised
           /\ ~ret.success
           /\ "attempt_count" \in DOMAIN ret.data
           /\ ret.data.attempt_count = 3
           /\ HeadIs(webhook_responses, ret)

-----------------------------------------------------------------------------
(* C8 *)

\* C8: retry only on transport failure. When the transport answers with an
\* HTTP response on attempt k (1 <= k <= 3) after k-1 timeouts or connection
\* failures, no further attempt is made whatever the status code, and the
\* recorded attempt_count is k.
C8_ResponseEndsRetry ==
    (/\ Called
     /\ PassesGates(ret.call.inp)
     /\ FirstResponse(ret.call.inp.outs) > 0
     /\ \A j \in 1..(FirstResponse(ret.call.inp.outs) - 1) :
            ret.call.inp.outs[j] \in RetriedOutcomes)
        => LET k == FirstResponse(ret.call.inp.outs)
           IN  /\ ret.call.attempts = k
               /\ ~ret.raised
               /\ ret.data.status_code = ret.call.inp.outs[k].status
               /\ ret.data.attempt_count = k
               /\ HeadIs(webhook_responses, ret)

\* two failed attempts, then a 500 on the third: recorded with attempt_count 3
C8_Witness ==
    /\ Called
    /\ PassesGates(ret.call.inp)
    /\ ret.call.inp.outs = <<Raises("Timeout"), Raises("ConnectionError"), Response(500)>>
    /\ ret.call.attempts = 3
    /\ ~ret.raised
    /\ ret.data.attempt_count = 3
    /\ ret.data.status_code = 500

-----------------------------------------------------------------------------
(* C9 *)

\* C9: dispatch never raises. For every payload, every known endpoint and
\* every behaviour of the validator, the rate limiter and the transport, the
\* call returns a (success, message, result) triple to its caller.
C9_NeverRaises == Called => ~ret.raised

-----------------------------------------------------------------------------
(* C10 *)

\* C10: history cap. In every reachable state the stored history holds at
\* most 20 records, for any mix of outcomes.
C10_HistoryCap == Len(webhook_responses) <= HistoryKeep

-----------------------------------------------------------------------------
(* C11 *)

\* C11: every call of send_to_webhook records exactly one result for its
\* endpoint in the history: after the call the history begins with the
\* record the call returned, labelled with the call's endpoint, and the rest
\* of the history is the history of before (or its first records), whether
\* the call ended in success, an HTTP error status, a gate refusal or a
\* transport failure.
C11_OneRecordPerCall ==
    [][CallStep
          => /\ ~ret'.raised
             /\ Len(webhook_responses') >= 1
             /\ webhook_responses'[1] = ret'.data
             /\ webhook_responses'[1].webhook_type = ret'.call.webhook_type
             /\ \E n \in 0..Len(webhook_responses) :
                    Tail(webhook_responses') = SubSeq(webhook_responses, 1, n)]_vars

-----------------------------------------------------------------------------
(* C12 *)

\* C12: the sent counter of an endpoint is incremented by exactly 1 by a
\* call that passes all gates and reaches the send step, however many send
\* attempts (1 to 3) the retry loop makes, and is left as it is by a call
\* refused at a gate; the sent counters of the other endpoints are left as
\* they are.
C12_SentOncePerCall ==
    [][CallStep
          => LET w == ret'.call.webhook_type
                 passed == PassesGates(ret'.call.inp)
             IN  /\ webhook_stats'[w].sent
                       = webhook_stats[w].sent + (IF passed THEN 1 ELSE 0)
                 /\ passed <=> ret'.call.attempts \in 1..max_retries
                 /\ \A o \in WEBHOOK_URLS \ {w} :
                       webhook_stats'[o].sent = webhook_stats[o].sent]_vars

\* a call that passed the gates made three send attempts and sent stands at 1
C12_Witness ==
    /\ Called
    /\ PassesGates(ret.call.inp)
    /\ ret.call.attempts = 3
    /\ webhook_stats[ret.call.webhook_type].sent = 1

-----------------------------------------------------------------------------
(* Vocabulary of the claims about send_to_multiple_webhooks *)

\* the last step was a call of send_to_multiple_webhooks, and ret describes it
ManyCalled == ret.call.op = "send_to_multiple_webhooks"

\* the step from the unprimed to the primed state is such a call
ManyStep == calls' = calls + 1 /\ ret'.call.op = "send_to_multiple_webhooks"

\* the entry of results for kind k, if there is one
ResultOf(results, k) == IF k \in DOMAIN results THEN results[k] ELSE [missing |-> k]

\* the network attempts of a fan-out
AttemptsOf(sends) == {sends[i].attempts : i \in 1..Len(sends)}

\* an endpoint whose call passes the gates and whose transport never answers 200
AlwaysFails(inp) ==
    /\ PassesGates(inp)
    /\ inp.outs \in FanTranscripts \ {<<Response(200), Response(200), Response(200)>>}

\* an endpoint whose call passes the gates and whose transport answers 200
AlwaysSucceeds(inp) ==
    PassesGates(inp) /\ inp.outs = <<Response(200), Response(200), Response(200)>>

-----------------------------------------------------------------------------
(* C13 *)

\* C13: a fan-out with a payload that fails validation returns, for every
\* requested kind, a failure result carrying the same message, and makes no
\* send attempt to any endpoint (the sent counters are left as they are).
C13_InvalidFanOut ==
    [][(ManyStep /\ ret'.call.pre = "invalid")
          => LET kinds == KindsOf(ret'.call.webhook_types)
             IN  /\ \A k \in kinds :
                       /\ k \in DOMAIN ret'.results
                       /\ ~ret'.results[k].success
                 /\ \A k1 \in kinds, k2 \in kinds :
                       ret'.results[k1].message = ret'.results[k2].message
                 /\ AttemptsOf(ret'.sends) \subseteq {0}
                 /\ \A w \in WEBHOOK_URLS :
                       webhook_stats'[w].sent = webhook_stats[w].sent]_vars

\* a fan-out to a known and an unknown kind was refused for an invalid payload
C13_Witness ==
    /\ ManyCalled
    /\ ret.call.pre = "invalid"
    /\ KindsOf(ret.call.webhook_types) = {"audio", "unknown"}
    /\ ~ret.results["audio"].success
    /\ ret.results["audio"].message = ret.results["unknown"].message

-----------------------------------------------------------------------------
(* C14 *)

\* C14: fan-out isolation. The result obtained for a requested endpoint b is
\* the same whatever the transport of another requested endpoint a does
\* (answers 200, answers 500, times out, raises), and an endpoint requested
\* together with a failing one is still dispatched: with a always failing and
\* b always succeeding the result of a is a failure and that of b a success.
C14_FanOutIsolation ==
    [][(ManyStep /\ ret'.call.pre = "ok")
          => LET c == ret'.call
                 kinds == KindsOf(c.webhook_types)
             IN  \A a \in kinds \cap CONTENT_TYPES : \A b \in kinds \ {a} :
                    /\ b \in DOMAIN ret'.results
                    /\ \A t \in FanTranscripts :
                          ResultOf(send_to_multiple_webhooks(
                                       webhook_stats, webhook_responses,
                                       c.webhook_types, c.pre,
                                       [c.inps EXCEPT ![a].outs = t]).results, b)
                             = ret'.results[b]
                    /\ (b \in CONTENT_TYPES /\ AlwaysFails(c.inps[a])
                            /\ AlwaysSucceeds(c.inps[b]))
                          => /\ ~ret'.results[a].success
                             /\ ret'.results[b].success
                             /\ \E i \in 1..Len(ret'.sends) :
                                   /\ ret'.sends[i].webhook_type = b
                                   /\ ret'.sends[i].attempts = 1]_vars

\* the endpoint requested first failed with an exception that left
\* send_to_webhook, and the endpoint requested after it succeeded
C14_Witness ==
    /\ ManyCalled
    /\ ret.call.pre = "ok"
    /\ ret.call.webhook_types = <<"audio", "books">>
    /\ ret.results["audio"].message = "Error sending"
    /\ ret.results["books"].success

-----------------------------------------------------------------------------
(* C15 *)

\* C15 as stated: the fan-out returns a mapping whose key set is exactly the
\* set of requested kinds, each mapped to a result with a success flag, a
\* message and data, for every list of kinds, the empty list and lists with
\* an unknown kind included.
C15_KeysAreRequestedKinds ==
    ManyCalled
        => /\ DOMAIN ret.results = KindsOf(ret.call.webhook_types)
           /\ \A k \in DOMAIN ret.results :
                 DOMAIN ret.results[k] = {"success", "message", "data"}

\* C15 as amended: for every non-empty list of kinds, lists with an unknown
\* kind included, the fan-out returns a mapping whose key set is exactly the
\* set of requested kinds, each mapped to a result with a success flag, a
\* message and data; for the empty list it returns the mapping with the
\* single key 'error' and the text 'No webhook types specified', and calls
\* no endpoint.
C15_KeysUnlessEmpty ==
    ManyCalled
        => IF ret.call.webhook_types = <<>>
           THEN /\ ret.results = [error |-> "No webhook types specified"]
                /\ ret.sends = <<>>
           ELSE /\ DOMAIN ret.results = KindsOf(ret.call.webhook_types)
                /\ \A k \in DOMAIN ret.results :
                      DOMAIN ret.results[k] = {"success", "message", "data"}

\* a fan-out to an unknown kind and to a known one whose call raised
C15_Witness ==
    /\ ManyCalled
    /\ ret.call.webhook_types = <<"unknown", "audio">>
    /\ ret.call.pre = "ok"
    /\ ret.results["unknown"].message = "Invalid webhook type"
    /\ ret.results["audio"].message = "Error sending"

-----------------------------------------------------------------------------
(* Vocabulary of the claims about script runs of the recorder page *)

\* the last step was a script run of the recorder page, and ret describes it
MainRan == ret.call.op = "main"

\* the step from the unprimed to the primed state is such a script run
MainStep == calls' = calls + 1 /\ ret'.call.op = "main"

\* the counters kept per endpoint
Counters == {"sent", "success", "errors"}

-----------------------------------------------------------------------------
(* C16 *)

\* C16: the per-endpoint counters sent, success and errors never decrease
\* and are never reset: over any sequence of script runs, each calling
\* initialize_session_state again and dispatching to one endpoint, fanning
\* out or sending nothing, each counter is greater than or equal to its
\* value before the run.
C16_CountersNeverDecrease ==
    [][(MainStep /\ webhook_stats # Absent)
          => /\ webhook_stats' # Absent
             /\ \A w \in WEBHOOK_URLS, c \in Counters :
                   webhook_stats'[w][c] >= webhook_stats[w][c]]_vars

\* a script run that sent nothing followed a run that dispatched, and the
\* counters of the dispatch still stand
C16_Witness ==
    /\ MainRan
    /\ calls = 2
    /\ ret.triggers = <<>>
    /\ webhook_stats["audio"].sent = 1
    /\ webhook_stats["audio"].errors = 1
    /\ webhook_stats["books"].success = 1

-----------------------------------------------------------------------------
(* C17 *)

\* the table read number i of a script run gave the page: None when the
\* fetch raised, else the remote table or the manager's stored table
ReadGave(log, i) ==
    IF log[i].op = "hit" THEN cache[log[i].key][1].table
    ELSE IF log[i].ok THEN remote[log[i].key]
    ELSE None

\* the reads of a script run
Reads(log) == Fetches(log) \cup Hits(log)

\* the events whose script run changes the table only through what it reads
ReadOnly(event) ==
    event \in {"none", "reload", "clear_cache", "save_settings", "update_config"}

\* C17: a read failure is never turned into an empty success and expiry
\* alone does not drop data. When every read of a script run (the auto-load
\* after expiry, the forced reload) fails or returns no rows, the table
\* loaded before and its timestamp stay as they are and the table remains
\* available to the pages.
C17_FailedReadKeepsTable ==
    [][(/\ ReadOnly(io'.event)
        /\ project_data # None
        /\ Reads(io'.log) # {}
        /\ \A i \in Reads(io'.log) : ~has_rows(ReadGave(io'.log, i)))
          => /\ project_data' = project_data
             /\ project_last_auto_load' = project_last_auto_load
             /\ has_rows(project_data')]_vars

\* 300 seconds after the load, the auto-load and the forced reload of one
\* script run both failed, and the table of the load is still there
C17_Witness ==
    /\ io.event = "reload"
    /\ Cardinality(Fetches(io.log)) = 2
    /\ \A i \in Fetches(io.log) : ~io.log[i].ok
    /\ now = 300
    /\ project_last_auto_load = 0
    /\ project_data = <<"P1">>

-----------------------------------------------------------------------------
(* C18 *)

\* C18 as stated: when the add-project form is submitted with its required
\* fields filled, a sheet is configured and the remote accepts the write,
\* so that append_row returns True, the table served after the submit is
\* the remote table with the appended row, and not the table as it was
\* before, also when the reload after the append fails.
C18_AppendedRowIsServed ==
    \A new_row \in RowVals, fetch_ok \in BOOLEAN :
        (/\ project_data # None
         /\ project_sheet_url # ""
         /\ Len(remote[ConfiguredKey]) < MaxRows)
          => LET r == add_project(SessionNow, now, new_row, TRUE, fetch_ok).s
             IN  /\ r.remote[ConfiguredKey] = Append(remote[ConfiguredKey], new_row)
                 /\ r.project_data = r.remote[ConfiguredKey]

-----------------------------------------------------------------------------
(* C19 *)

\* the reads of force_reload_project_data in a script run: clear_cache()
\* and then get_sheet_data(use_cache=False)
ForcedReads(log) == {i \in Fetches(log) : i > 1 /\ log[i - 1].op = "clear"}

\* the script run pressed "Update Config" and changed the configured sheet
ConfigChanged == io'.event = "update_config" /\ ConfiguredKey' # ConfiguredKey

\* C19 as stated: the table served as current data was fetched from the
\* currently configured (sheet URL, worksheet name); after the configuration
\* is changed to another sheet, the table that is served as fresh (less than
\* 300 seconds after its load) is one that a read of the newly configured
\* sheet gave.
C19_ServedFromConfiguredKey ==
    [][(/\ ConfigChanged
        /\ project_sheet_url' # ""
        /\ project_data' # None
        /\ project_last_auto_load' # NoTime
        /\ now' - project_last_auto_load' < auto_load_window)
          => \E i \in Reads(io'.log) :
                /\ io'.log[i].key = ConfiguredKey'
                /\ ReadGave(io'.log, i) = project_data']_vars

\* C19 as amended: every read of the page is of the sheet configured at the
\* moment of the read, and the manager keys its tables by (sheet id,
\* worksheet name); the session's table is one slot that is not keyed.
\* "Update Config" reloads, from the new sheet, exactly when auto-load is
\* ticked and the URL is not empty; when that reload gives rows they become
\* the table with the time of the reload, and otherwise the table of before
\* the change (or what the auto-load of the run read from the previous
\* sheet) stays with its timestamp and goes on being served as fresh.
C19_PreviousTableStays ==
    [][/\ ConfigChanged =>
            LET log == io'.log
                forced == ForcedReads(log)
                before == Reads(log) \ forced
            IN  /\ \A i \in forced : log[i].key = ConfiguredKey'
                /\ \A i \in before : log[i].key = ConfiguredKey
                /\ (forced # {}) <=> (project_auto_load_enabled' /\ project_sheet_url' # "")
                /\ IF \E i \in forced : has_rows(ReadGave(log, i))
                   THEN /\ \E i \in forced : project_data' = ReadGave(log, i)
                        /\ project_last_auto_load' = now
                   ELSE \/ /\ project_data' = project_data
                           /\ project_last_auto_load' = project_last_auto_load
                        \/ \E i \in before : /\ has_rows(ReadGave(log, i))
                                              /\ project_data' = ReadGave(log, i)
                                              /\ project_last_auto_load' = now
       /\ (ReadOnly(io'.event) /\ ~ConfigChanged) =>
            /\ \A i \in Reads(io'.log) : io'.log[i].key = ConfiguredKey'
            /\ project_data' # project_data
                  => \E i \in Reads(io'.log) : project_data' = ReadGave(io'.log, i)]_vars

\* the configuration was changed to the sheet "s2", whose table has no rows,
\* the forced reload read it, and the table loaded from the previous sheet
\* is still the session's table, less than 300 seconds old
C19_Witness ==
    /\ io.event = "update_config"
    /\ project_sheet_url = "s2"
    /\ remote[<<"s2", "">>] = <<>>
    /\ \E i \in ForcedReads(io.log) : io.log[i].key = <<"s2", "">> /\ io.log[i].ok
    /\ project_data = <<"P1">>
    /\ project_last_auto_load # NoTime
    /\ now - project_last_auto_load < auto_load_window

-----------------------------------------------------------------------------
(* C20 *)

\* the reads of auto_load_project_data that went to the remote sheet
AutoLoadFetches(log) == Fetches(log) \ ForcedReads(log)

\* the calls of the sheets manager in a script run
ManagerCalls(log) == {i \in 1..Len(log) : log[i].op # "rerun"}

C20_WitnessReload ==
    /\ io.event = "reload"
    /\ AutoLoadFetches(io.log) # {}
    /\ ForcedReads(io.log) # {}
    /\ Cardinality(ManagerCalls(io.log)) = 3

-----------------------------------------------------------------------------
(* C21 *)

\* the labels of the records written for a refusal at a gate
GateLabels == {"Validation failed", "Payload too large", "Rate limit exceeded"}

\* the labels of the records written for a failure of the transport
TransportLabels == {"Request timeout", "Connection error"}

\* C21: failure kinds are reported distinctly. A record labelled validation
\* failure, payload too large or rate limit exceeded is written only by a
\* call that made no send attempt, a record labelled request timeout or
\* connection error only by a call that passed all gates and made at least
\* one send attempt, and no record carries a label of both groups.
C21_DistinctFailureKinds ==
    (Called /\ ~ret.raised /\ "error" \in DOMAIN ret.data)
        => /\ HeadIs(webhook_responses, ret)
           /\ ret.data.error \in GateLabels
                => /\ ret.call.attempts = 0
                   /\ ~PassesGates(ret.call.inp)
           /\ ret.data.error \in TransportLabels
                => /\ PassesGates(ret.call.inp)
                   /\ ret.call.attempts >= 1
           /\ GateLabels \cap TransportLabels = {}
           /\ ~PassesGates(ret.call.inp) => ret.data.error \notin TransportLabels

\* one call was refused by the rate limiter with no attempt made, and the
\* call after it passed the gates and timed out on its three attempts
C21_Witness ==
    /\ Called
    /\ Len(webhook_responses) = 2
    /\ IsError(webhook_responses[2], "Rate limit exceeded")
    /\ IsError(webhook_responses[1], "Request timeout")
    /\ PassesGates(ret.call.inp)
    /\ ret.call.attempts = 3

-----------------------------------------------------------------------------
(* C22 *)

\* C22: each call that returns increments exactly one of the counters
\* success and errors of its endpoint, by exactly 1: success if and only if
\* the final HTTP status is exactly 200, and the returned flag is then true;
\* errors for every other outcome (another 2xx or 3xx status, 429, 4xx, 5xx,
\* a refusal at a gate, a failure of the transport), and the flag is then
\* false.
C22_OneOutcomeCounter ==
    [][(CallStep /\ ~ret'.raised)
          => LET w == ret'.call.webhook_type
                 ok == /\ "status_code" \in DOMAIN ret'.data
                       /\ ret'.data.status_code = 200
             IN  /\ webhook_stats'[w].success
                       = webhook_stats[w].success + (IF ok THEN 1 ELSE 0)
                 /\ webhook_stats'[w].errors
                       = webhook_stats[w].errors + (IF ok THEN 0 ELSE 1)
                 /\ ret'.success <=> ok
                 /\ ok => /\ PassesGates(ret'.call.inp)
                          /\ ret'.call.inp.outs[ret'.call.attempts] = Response(200)]_vars

\* a call answered with status 302 was counted as an error, after a call
\* answered with status 200 was counted as a success
C22_Witness ==
    /\ Called
    /\ ~ret.raised
    /\ "status_code" \in DOMAIN ret.data
    /\ ret.data.status_code = 302
    /\ ~ret.success
    /\ webhook_stats[ret.call.webhook_type].errors = 1
    /\ webhook_stats[ret.call.webhook_type].success = 1

-----------------------------------------------------------------------------
(* C23 *)

\* C23: the history is most-recent-first. Immediately after a call returns,
\* the first record of the history is the record of that call, and each
\* record kept from before the call stands one position later than before,
\* so the kept records keep their relative order.
C23_MostRecentFirst ==
    [][(CallStep /\ ~ret'.raised)
          => /\ Len(webhook_responses') >= 1
             /\ webhook_responses'[1] = ret'.data
             /\ Len(webhook_responses') <= Len(webhook_responses) + 1
             /\ Len(webhook_responses') >= Min(Len(webhook_responses) + 1, HistoryKeep)
             /\ \A i \in 2..Len(webhook_responses') :
                    webhook_responses'[i] = webhook_responses[i - 1]]_vars

\* three calls returned: the third, answered with status 200, stands first,
\* the timeout of the second after it and the refusal of the first last
C23_Witness ==
    /\ Called
    /\ calls = 3
    /\ Len(webhook_responses) = 3
    /\ webhook_responses[1] = ret.data
    /\ "status_code" \in DOMAIN webhook_responses[1]
    /\ IsError(webhook_responses[2], "Request timeout")
    /\ IsError(webhook_responses[3], "Rate limit exceeded")

-----------------------------------------------------------------------------
(* C24 *)

\* a table is loaded and strictly fewer than 300 seconds have passed since
\* project_last_auto_load
WithinWindow ==
    /\ project_data # None
    /\ project_last_auto_load # NoTime
    /\ now - project_last_auto_load < 300

\* the script run reads the sheet through auto-load only, with auto-load
\* enabled and a sheet configured
AutoLoadRun ==
    /\ AutoLoadOnly(io'.event)
    /\ project_auto_load_enabled
    /\ project_sheet_url # ""

C24_WitnessHit ==
    /\ io.event = "none"
    /\ now = 300
    /\ project_auto_load_enabled
    /\ Hits(io.log) # {}
    /\ Fetches(io.log) = {}

-----------------------------------------------------------------------------
(* C25 *)

\* the sum of a sequence of numbers
RECURSIVE SumOf(_)
SumOf(s) == IF s = <<>> THEN 0 ELSE Head(s) + SumOf(Tail(s))

\* C25: linear backoff. After failed send attempt number n (n = 1, 2)
\* caused by a timeout or a connection failure the call waits
\* retry_delay * n seconds (1 s, then 2 s) before attempt n + 1; after the
\* third failed attempt it does not wait and fails at once, so one call
\* waits at most 3 seconds in total; a call refused at a gate or answered at
\* its first attempt does not wait.
C25_LinearBackoff ==
    Called
        => LET slept == ret.call.slept
               attempts == ret.call.attempts
           IN  /\ Len(slept) = (IF attempts = 0 THEN 0 ELSE attempts - 1)
               /\ \A n \in 1..Len(slept) :
                     /\ slept[n] = 1 * n
                     /\ ret.call.inp.outs[n] \in RetriedOutcomes
               /\ SumOf(slept) <= 3
               /\ (PassesGates(ret.call.inp)
                   /\ \A n \in 1..3 : ret.call.inp.outs[n].kind # "response"
                   /\ ret.call.inp.outs[1] \in RetriedOutcomes
                   /\ ret.call.inp.outs[2] \in RetriedOutcomes
                   /\ ret.call.inp.outs[3] \in RetriedOutcomes)
                     => attempts = 3 /\ slept = <<1, 2>> /\ ~ret.raised /\ ~ret.success

\* three attempts failed, by a timeout, a connection failure and a timeout:
\* the call waited 1 s and 2 s and returned failure
C25_Witness ==
    /\ Called
    /\ PassesGates(ret.call.inp)
    /\ ret.call.inp.outs = <<Raises("Timeout"), Raises("ConnectionError"), Raises("Timeout")>>
    /\ ret.call.attempts = 3
    /\ ret.call.slept = <<1, 2>>
    /\ Refused(ret, "Request timeout")

-----------------------------------------------------------------------------
(* C26 *)

\* C26: in every reachable state and for every endpoint, success <= sent. A
\* success is counted only for a call that also incremented sent (it passed
\* the gates and made a send attempt), so the success rate success / sent
\* that is displayed never exceeds 100%.
C26_SuccessAtMostSent ==
    /\ \A w \in WEBHOOK_URLS : webhook_stats[w].success <= webhook_stats[w].sent
    /\ (Called /\ ~ret.raised /\ ret.success)
          => /\ PassesGates(ret.call.inp)
             /\ ret.call.attempts >= 1
             /\ webhook_stats[ret.call.webhook_type].sent >= 1

\* two calls to one endpoint were both answered with status 200, the second
\* at its third attempt: success and sent both stand at 2
C26_Witness ==
    /\ Called
    /\ ~ret.raised
    /\ ret.success
    /\ ret.call.attempts = 3
    /\ webhook_stats[ret.call.webhook_type].success = 2
    /\ webhook_stats[ret.call.webhook_type].sent = 2

-----------------------------------------------------------------------------
(* C27 *)

\* what the data editor can hand to "Save Changes" for a displayed page: the
\* rows of the page that were not deleted in the editor, and possibly one
\* added row, whose index is not on the page
EditedFrames(full_df, page) ==
    UNION {[kept \cup extra -> RowVals] :
             kept \in SUBSET page,
             extra \in {{}} \cup {{i} : i \in (1..(Len(full_df) + 1)) \ page}}

\* C27: saving the edits of one displayed page replaces, in the full table,
\* only the rows whose index is on the displayed page, and leaves every
\* other row of the full table as it is; when the remote update returns
\* False or raises, the session's table and its load timestamp are left
\* unchanged.
C27_SaveTouchesPageOnly ==
    project_data # None
        => \A page \in SUBSET (DOMAIN project_data), write_ok \in BOOLEAN :
             \A edited \in EditedFrames(project_data, page) :
                LET r == save_project_changes(SessionNow, now, edited, page, write_ok).s
                    saved == WritesDone(r.log) # {}
                IN  /\ saved <=> (write_ok /\ project_sheet_url # "")
                    /\ saved
                         => /\ DOMAIN r.project_data = DOMAIN project_data
                            /\ \A i \in DOMAIN project_data :
                                 r.project_data[i] =
                                    IF i \in page /\ i \in DOMAIN edited
                                    THEN edited[i] ELSE project_data[i]
                            /\ r.remote[ConfiguredKey] = r.project_data
                    /\ ~saved
                         => /\ r.project_data = project_data
                            /\ r.project_last_auto_load = project_last_auto_load
                            /\ r.remote = remote

\* the second row of the two-row table of the sheet was on the page and was
\* saved as "P1"; the first row still is "P1" and the sheet holds the same
C27_Witness ==
    /\ io.event = "save_changes"
    /\ WritesDone(io.log) # {}
    /\ project_data = <<"P1", "P1">>
    /\ remote[ConfiguredKey] = <<"P1", "P1">>
    /\ project_last_auto_load = now

-----------------------------------------------------------------------------
(* C28 *)

\* C28: a call of send_to_webhook for endpoint A changes only the counters
\* of A: the counters sent, success and errors of every other endpoint are
\* unchanged by it, for every outcome of the call; within
\* send_to_multiple_webhooks the counters of an endpoint that was not
\* requested are never changed.
C28_OtherCountersUnchanged ==
    [][ManyStep
          => LET c == ret'.call
             IN  /\ \A o \in WEBHOOK_URLS \ KindsOf(c.webhook_types) :
                       webhook_stats'[o] = webhook_stats[o]
                 /\ \A a \in WEBHOOK_URLS : \A o \in WEBHOOK_URLS \ {a} :
                       send_to_webhook(webhook_stats, webhook_responses, a,
                                       c.inps[a]).stats[o] = webhook_stats[o]
                 /\ \A i \in 1..Len(ret'.sends) :
                       ret'.sends[i].webhook_type \in KindsOf(c.webhook_types)]_vars

\* two fan-outs that requested "audio" only were answered with status 200:
\* its counters stand at 2 and those of "books" at 0
C28_Witness ==
    /\ ManyCalled
    /\ ret.call.webhook_types = <<"audio">>
    /\ Len(ret.sends) = 1
    /\ webhook_stats["audio"] = [sent |-> 2, success |-> 2, errors |-> 0]
    /\ webhook_stats["books"] = [sent |-> 0, success |-> 0, errors |-> 0]

-----------------------------------------------------------------------------
(* C29 *)

\* C29: when the transport fails with an SSL certificate error, the call
\* returns failure and records an entry labelled "SSL certificate error",
\* with the text of the SSL error, for that endpoint: an entry distinct from
\* the "Connection error" entry recorded for a connection failure.
C29_SSLErrorLabelled ==
    (/\ Called
     /\ PassesGates(ret.call.inp)
     /\ ret.call.attempts >= 1
     /\ ret.call.inp.outs[ret.call.attempts] = Raises("SSLError"))
        => /\ Refused(ret, "SSL certificate error")
           /\ "ssl_error" \in DOMAIN ret.data
           /\ ret.data.webhook_type = ret.call.webhook_type
           /\ HeadIs(webhook_responses, ret)

-----------------------------------------------------------------------------
(* C30 *)

\* the values the hidden text area can hold when it is not empty
Recordings == {in.audio_data : in \in RunInputs} \ {""}

\* the last script run made the automatic send
AutoRan == MainRan /\ ret.triggers # <<>> /\ ret.triggers[1] = "auto"

\* the step is a script run that makes the automatic send
AutoStep == MainStep /\ ret'.triggers # <<>> /\ ret'.triggers[1] = "auto"

\* C30 (as stated): a captured recording is sent automatically at most once
\* over any sequence of script reruns: once a script run has dispatched some
\* audio data automatically, no later run dispatches the same audio data
\* automatically again.
C30_AutoSentAtMostOnce ==
    \A i \in DOMAIN auto_dispatched : \A j \in DOMAIN auto_dispatched :
        i # j => auto_dispatched[i] # auto_dispatched[j]

\* C30 (amended): the automatic dispatch runs exactly in the script runs
\* whose audio data is non-empty and differs from last_audio_data; such a run
\* leaves that audio data in last_audio_data whether its dispatch succeeded,
\* failed or was left by an exception, and any other run leaves
\* last_audio_data as it was, so a run with the audio data of the latest
\* automatic dispatch never dispatches automatically: the same audio data
\* is never dispatched automatically twice in a row.
C30_AutoOnlyOnChangedAudio ==
    [][MainStep
          => LET in == ret'.call.in
                 auto == ret'.triggers # <<>> /\ ret'.triggers[1] = "auto"
             IN  /\ auto <=> (in.audio_data # "" /\ in.audio_data # last_audio_data)
                 /\ last_audio_data' = IF auto THEN in.audio_data ELSE last_audio_data
                 /\ in.audio_data = last_audio_data => ~auto
                 /\ auto /\ auto_dispatched # <<>>
                       => auto_dispatched[Len(auto_dispatched)] # in.audio_data]_vars

\* C30 witness: a second script run with the audio data whose automatic
\* dispatch was left by an exception in the first run: nothing is dispatched
\* again.
C30_Witness ==
    /\ MainRan
    /\ calls = 2
    /\ ret.call.in.audio_data = "a1"
    /\ ~ret.call.in.clicked
    /\ last_audio_data = "a1"
    /\ ret.triggers = <<>>
    /\ ret.sends = <<>>
    /\ webhook_responses = <<>>
    /\ \E k \in WEBHOOK_URLS : webhook_stats[k].sent = 1 /\ webhook_stats[k].success = 0

====
